---------------------------- MODULE Spec2Model ----------------------------
(***************************************************************************)
(* A model of the `api` package: the route matcher (_match_path,           *)
(* API._match_route), the dispatch callback API.__call__ with its          *)
(* middleware checks (_enforce_ip_block, _enforce_token_auth,              *)
(* _enforce_rate_limit) over the process-wide maps blocked_ips,            *)
(* _auth_failures and rate_limits, the parameter binder (_build_kwargs,    *)
(* _parse_literal) and the transport (BuiltinHTTPServer).                  *)
(*                                                                         *)
(* Python strings are modelled as sequences of one-character strings, so   *)
(* that strip, split, startswith and the literal coercions are computed    *)
(* the way the code computes them.                                         *)
(***************************************************************************)
EXTENDS Integers, Sequences, FiniteSets, TLC

(***************************************************************************)
(* Strings                                                                 *)
(***************************************************************************)

\* str.lstrip(chars) for a set of characters
RECURSIVE LStrip(_, _)
LStrip(s, cs) ==
  IF s # <<>> /\ Head(s) \in cs THEN LStrip(Tail(s), cs) ELSE s

\* str.rstrip(chars)
RECURSIVE RStrip(_, _)
RStrip(s, cs) ==
  IF s # <<>> /\ s[Len(s)] \in cs THEN RStrip(SubSeq(s, 1, Len(s) - 1), cs) ELSE s

\* str.strip(chars)
Strip(s, cs) == RStrip(LStrip(s, cs), cs)

\* str.split(sep) for a one-character separator: "".split("/") is [""]
RECURSIVE Split(_, _)
Split(s, sep) ==
  IF s = <<>> THEN << <<>> >>
  ELSE LET rest == Split(Tail(s), sep) IN
       IF Head(s) = sep THEN << <<>> >> \o rest
       ELSE << <<Head(s)>> \o Head(rest) >> \o Tail(rest)

\* str.startswith(prefix)
StartsWith(s, p) == Len(s) >= Len(p) /\ SubSeq(s, 1, Len(p)) = p

\* str.endswith(suffix)
EndsWith(s, p) == Len(s) >= Len(p) /\ SubSeq(s, Len(s) - Len(p) + 1, Len(s)) = p

\* sep.join(parts)
RECURSIVE Join(_, _)
Join(parts, sep) ==
  IF parts = <<>> THEN <<>>
  ELSE IF Len(parts) = 1 THEN parts[1]
  ELSE parts[1] \o sep \o Join(Tail(parts), sep)

\* the empty dict
EmptyDict == [k \in {} |-> <<>>]

\* d[k] = v on a dict (a later assignment to the same key overwrites)
DictSet(d, k, v) == [x \in (DOMAIN d) \cup {k} |-> IF x = k THEN v ELSE d[x]]

(***************************************************************************)
(* Router: _match_path                                                     *)
(***************************************************************************)

\* [p for p in s.strip("/").split("/") if p], without the 'or [""]'
PathPartsNoRoot(s) == SelectSeq(Split(Strip(s, {"/"}), "/"), LAMBDA p : p # <<>>)

\* [p for p in s.strip("/").split("/") if p] or [""]
PathParts(s) ==
  LET kept == SelectSeq(Split(Strip(s, {"/"}), "/"), LAMBDA p : p # <<>>)
  IN  IF kept = <<>> THEN << <<>> >> ELSE kept

\* t.startswith("{") and t.endswith("}")
IsCapture(t) == StartsWith(t, <<"{">>) /\ EndsWith(t, <<"}">>)

\* t[1:-1]
CaptureName(t) == SubSeq(t, 2, Len(t) - 1)

\* the result of a failed match (Python's None)
NoMatch == [matched |-> FALSE]

\* MatchFrom changed to keep the first value bound to a repeated name
RECURSIVE MatchFromFirstWins(_, _, _, _)
MatchFromFirstWins(t_parts, p_parts, i, params) ==
  IF i > Len(t_parts) THEN [matched |-> TRUE, params |-> params]
  ELSE IF IsCapture(t_parts[i])
       THEN MatchFromFirstWins(t_parts, p_parts, i + 1,
              IF CaptureName(t_parts[i]) \in DOMAIN params THEN params
              ELSE DictSet(params, CaptureName(t_parts[i]), p_parts[i]))
       ELSE IF t_parts[i] = p_parts[i]
            THEN MatchFromFirstWins(t_parts, p_parts, i + 1, params)
            ELSE NoMatch

\* the loop of _match_path over zip(t_parts, p_parts), from position i on
RECURSIVE MatchFrom(_, _, _, _)
MatchFrom(t_parts, p_parts, i, params) ==
  IF i > Len(t_parts) THEN [matched |-> TRUE, params |-> params]
  ELSE IF IsCapture(t_parts[i])
       THEN MatchFrom(t_parts, p_parts, i + 1,
                      DictSet(params, CaptureName(t_parts[i]), p_parts[i]))
       ELSE IF t_parts[i] = p_parts[i]
            THEN MatchFrom(t_parts, p_parts, i + 1, params)
            ELSE NoMatch

_match_path(template, path) ==
  LET t_parts == PathParts(template)
      p_parts == PathParts(path)
  IN  IF Len(t_parts) # Len(p_parts) THEN NoMatch
      ELSE MatchFrom(t_parts, p_parts, 1, EmptyDict)


(***************************************************************************)
(* Text constants used by the model                                        *)
(***************************************************************************)

GET == <<"G", "E", "T">>
POST == <<"P", "O", "S", "T">>
get == <<"g", "e", "t">>
post == <<"p", "o", "s", "t">>
HelpPath == <<"/", "h", "e", "l", "p">>
HelpDetailPath == HelpPath \o <<"/", "{", "e", "n", "d", "p", "o", "i", "n", "t", "}">>

\* str.upper() on the letters that occur in the model's method names
UpperChar(c) ==
  CASE c = "g" -> "G" [] c = "e" -> "E" [] c = "t" -> "T"
    [] c = "p" -> "P" [] c = "o" -> "O" [] c = "s" -> "S"
    [] OTHER -> c

Upper(s) == [i \in DOMAIN s |-> UpperChar(s[i])]

\* a middleware set that is None or the empty list: both are falsy, and
\* truthiness is all that __call__ and the checks look at
NoMids == <<>>

(***************************************************************************)
(* State                                                                   *)
(***************************************************************************)
VARIABLES
  \* inputs and output of one call of _match_path
  m_template, m_path, m_done, m_result,
  \* API._routes, and the last request resolved against it with its result
  routes, r_done, r_req, r_res,
  \* datetime.now(), in seconds
  now,
  \* the process-wide maps of api.mods.helper
  blocked_ips, auth_failures, rate_limits,
  \* each connection's place in API.__call__: idle, or suspended in its handler
  conn,
  \* the request that was answered last, with the steps it took and its response
  last,
  \* history, per IP: the times of its last two 401-coded outcomes on routes
  \* carrying a Block and whether three of them ever fell within 30 seconds;
  \* the same for its 401 responses on any route; its window of rate-checked
  \* requests
  g_fail, g_hit, g_resp, g_three, g_win,
  \* the binder: the template of the matched route, the request as the
  \* transport hands it over, the parameters of the user's function, and the
  \* keyword arguments built or the exception raised
  b_template, b_scope, b_func, b_done, b_result,
  \* the transport, for one accepted connection: the bytes the client sends,
  \* the place of _handle_client, the scope built for the application,
  \* response_started and response_ended of the send callback, the bytes
  \* written to the client, the function that wrote them, how the call
  \* of the application ended, and the last message handed to send with
  \* what send did with it
  t_stream, t_pc, t_scope, t_started, t_ended, t_wire, t_via, t_app, t_msg,
  \* the normalizer: the value the handler returned, and the envelope
  \* _to_response_model made of it
  n_result, n_done, n_resp

matchVars == <<m_template, m_path, m_done, m_result>>
routeVars == <<r_done, r_req, r_res>>
mapVars == <<blocked_ips, auth_failures, rate_limits>>
histVars == <<g_fail, g_hit, g_resp, g_three, g_win>>
dispatchVars == <<now, mapVars, conn, last, histVars>>
bindVars == <<b_template, b_scope, b_func, b_done, b_result>>
transportVars ==
  <<t_stream, t_pc, t_scope, t_started, t_ended, t_wire, t_via, t_app, t_msg>>
normVars == <<n_result, n_done, n_resp>>
vars == <<matchVars, routes, routeVars, dispatchVars, bindVars, transportVars, normVars>>

\* what the actions of each part leave alone
notMatch == <<routes, routeVars, dispatchVars, bindVars, transportVars, normVars>>
notRoute == <<matchVars, dispatchVars, bindVars, transportVars, normVars>>
notDispatch == <<routes, matchVars, routeVars, bindVars, transportVars, normVars>>
notBind == <<matchVars, routes, routeVars, dispatchVars, transportVars, normVars>>
notTransport == <<matchVars, routes, routeVars, dispatchVars, bindVars, normVars>>
notNormalize == <<matchVars, routes, routeVars, dispatchVars, bindVars, transportVars>>

(***************************************************************************)
(* Bounds of the inputs                                                    *)
(***************************************************************************)

\* most segments in a template
MaxSegs == 2
\* most characters in a request path given to _match_path
MaxPathLen == 4
\* most routes registered by the application
MaxRoutes == 2

TemplateSegs == { <<"a">>, <<"b">>, <<"{", "x", "}">>, <<"{", "y", "}">> }

RECURSIVE SegSeqs(_)
SegSeqs(n) ==
  IF n = 0 THEN { <<>> }
  ELSE LET shorter == SegSeqs(n - 1) IN
       shorter \cup { Append(q, g) : q \in {r \in shorter : Len(r) = n - 1},
                                     g \in TemplateSegs }

\* templates as route() stores them: a leading "/", segments joined by "/"
Templates == { <<"/">> \o Join(q, <<"/">>) : q \in SegSeqs(MaxSegs) }

PathChars == {"/", "a", "b"}

RECURSIVE CharSeqs(_)
CharSeqs(n) ==
  IF n = 0 THEN { <<>> }
  ELSE LET shorter == CharSeqs(n - 1) IN
       shorter \cup { Append(q, c) : q \in {r \in shorter : Len(r) = n - 1},
                                     c \in PathChars }

Paths == CharSeqs(MaxPathLen)

(***************************************************************************)
(* The matcher, called on one template and one path                        *)
(***************************************************************************)

MatchInit ==
  /\ m_template \in Templates
  /\ m_path \in Paths
  /\ m_done = FALSE
  /\ m_result = NoMatch

MatchIdle ==
  /\ m_template = <<"/">>
  /\ m_path = <<"/">>
  /\ m_done = FALSE
  /\ m_result = NoMatch

MatchPath ==
  /\ ~m_done
  /\ m_result' = _match_path(m_template, m_path)
  /\ m_done' = TRUE
  /\ UNCHANGED <<m_template, m_path, notMatch>>

(***************************************************************************)
(* The route table and route resolution                                    *)
(***************************************************************************)

\* route.path == "/help" or route.path.startswith("/help/")
IsHelpPath(p) == p = HelpPath \/ StartsWith(p, HelpPath \o <<"/">>)

\* API.__init__ with _add_help_routes: the two introspection entries
HelpEntries ==
  << [method |-> GET, path |-> HelpPath, name |-> "help", mids |-> NoMids],
     [method |-> GET, path |-> HelpDetailPath, name |-> "help_detail", mids |-> NoMids] >>

\* Error(404, f"No route for {method} {path}")
NoRouteDetail(method, path) == <<"No route for ">> \o method \o <<" ">> \o path

\* e.detail if e.detail in Json else None: Json is a type of an external
\* library, so the value is kept as a term
IfJson(v) == <<"if in Json", v>>

\* the failure envelope built from an Error whose detail is a str
ErrorResponse(code, detail) ==
  [status |-> "failure", code |-> code, data |-> IfJson(detail), message |-> detail]

\* MatchRouteFrom changed to prefer a later matching entry (best match last)
RECURSIVE MatchRouteLast(_, _, _, _)
MatchRouteLast(rs, i, method, path) ==
  IF i > Len(rs) THEN [kind |-> "error", code |-> 404, detail |-> NoRouteDetail(method, path)]
  ELSE LET later == MatchRouteLast(rs, i + 1, method, path) IN
       IF later.kind = "route" THEN later
       ELSE IF IsHelpPath(rs[i].path) \/ rs[i].method # Upper(method) THEN later
       ELSE LET params == _match_path(rs[i].path, path) IN
            IF params.matched
            THEN [kind |-> "route", idx |-> i, params |-> params.params]
            ELSE later

\* MatchRouteFrom changed to answer 405 when the path matches an entry of
\* another method
RECURSIVE MatchRoute405(_, _, _, _)
MatchRoute405(rs, i, method, path) ==
  IF i > Len(rs)
  THEN IF \E j \in DOMAIN rs : ~IsHelpPath(rs[j].path) /\ _match_path(rs[j].path, path).matched
       THEN [kind |-> "error", code |-> 405, detail |-> <<"Method Not Allowed">>]
       ELSE [kind |-> "error", code |-> 404, detail |-> NoRouteDetail(method, path)]
  ELSE IF IsHelpPath(rs[i].path) THEN MatchRoute405(rs, i + 1, method, path)
  ELSE IF rs[i].method # Upper(method) THEN MatchRoute405(rs, i + 1, method, path)
  ELSE LET params == _match_path(rs[i].path, path) IN
       IF params.matched
       THEN [kind |-> "route", idx |-> i, params |-> params.params]
       ELSE MatchRoute405(rs, i + 1, method, path)

\* API._match_route from entry i on: the first entry that is not an
\* introspection entry, has the method and matches the path
RECURSIVE MatchRouteFrom(_, _, _, _)
MatchRouteFrom(rs, i, method, path) ==
  IF i > Len(rs) THEN [kind |-> "error", code |-> 404, detail |-> NoRouteDetail(method, path)]
  ELSE IF IsHelpPath(rs[i].path) THEN MatchRouteFrom(rs, i + 1, method, path)
  ELSE IF rs[i].method # Upper(method) THEN MatchRouteFrom(rs, i + 1, method, path)
  ELSE LET params == _match_path(rs[i].path, path) IN
       IF params.matched
       THEN [kind |-> "route", idx |-> i, params |-> params.params]
       ELSE MatchRouteFrom(rs, i + 1, method, path)

_match_route(rs, method, path) == MatchRouteFrom(rs, 1, method, path)

\* next((r for r in self._routes if r.path == p), None), as an index (0 for None)
FirstWithPath(rs, p) ==
  LET hits == {i \in DOMAIN rs : rs[i].path = p}
  IN  IF hits = {} THEN 0 ELSE CHOOSE i \in hits : \A j \in hits : i <= j

\* the resolution of the route with every path handed to _match_route
ResolveRouteByMatch(rs, scope_method, path) ==
  LET m == _match_route(rs, Upper(scope_method), path) IN
  IF m.kind = "route" THEN m
  ELSE [kind |-> "notfound", resp |-> ErrorResponse(m.code, m.detail)]

\* API.__call__, the resolution of the route: the scope's method is
\* upper-cased, /help and /help/... go to the introspection entries, any
\* other path to _match_route, whose Error becomes the 404 envelope
ResolveRoute(rs, scope_method, path) ==
  LET method == Upper(scope_method) IN
  IF path = HelpPath
  THEN [kind |-> "route", idx |-> FirstWithPath(rs, HelpPath), params |-> EmptyDict]
  ELSE IF StartsWith(path, HelpPath \o <<"/">>)
  THEN [kind |-> "route", idx |-> FirstWithPath(rs, HelpDetailPath),
        params |-> DictSet(EmptyDict, <<"e", "n", "d", "p", "o", "i", "n", "t">>,
                           SubSeq(path, 7, Len(path)))]
  ELSE LET m == _match_route(rs, method, path) IN
       IF m.kind = "route" THEN m
       ELSE [kind |-> "notfound", resp |-> ErrorResponse(m.code, m.detail)]

\* API.route: the path gets a leading "/" when it has none, the method is
\* upper-cased, the middleware set defaults to the API's
RegisteredEntry(method, path, name, mids) ==
  [method |-> Upper(method),
   path |-> IF StartsWith(path, <<"/">>) THEN path ELSE <<"/">> \o path,
   name |-> name, mids |-> mids]

\* what the applications of the routing specification register
RegMethods == {GET, post}
RegPaths ==
  { <<"/", "a", "/", "{", "x", "}">>, <<"/", "a", "/", "b">>, <<"a", "/", "b">>,
    <<"/", "{", "x", "}">>, HelpPath \o <<"/", "a">> }
ReqMethods == {GET, get, POST}
ReqPaths ==
  { <<"/", "a", "/", "b">>, <<"/", "a", "/", "c">>, <<"/", "a">>, <<"/", "z", "/">>,
    HelpPath, HelpPath \o <<"/", "a">>, <<"/">> \o HelpPath \o <<"/", "a">> }

NoRequest == [method |-> <<>>, path |-> <<>>]
NoResult == [kind |-> "none"]

RouteInit ==
  /\ routes = HelpEntries
  /\ r_done = FALSE
  /\ r_req = NoRequest
  /\ r_res = NoResult

\* a route registered at start-up, before the first request
Register(method, path) ==
  /\ ~r_done
  /\ Len(routes) < Len(HelpEntries) + MaxRoutes
  /\ routes' = Append(routes, RegisteredEntry(method, path, "user", NoMids))
  /\ UNCHANGED <<r_done, r_req, r_res, notRoute>>

\* one request resolved against the table
Resolve(method, path) ==
  /\ r_req' = [method |-> method, path |-> path]
  /\ r_res' = ResolveRoute(routes, method, path)
  /\ r_done' = TRUE
  /\ UNCHANGED <<routes, notRoute>>

(***************************************************************************)
(* Middleware records (api.mods.mids) and the three checks                 *)
(***************************************************************************)

\* None in a timestamp field (a block that never expires)
NoneTime == -1
\* status_code=None
NoCode == 0
\* timedelta(minutes=1), in seconds
MinuteSeconds == 60

Block(codes, attempts, interval, block_minutes, message) ==
  [type |-> "Block", codes |-> codes, attempts |-> attempts, interval |-> interval,
   block_minutes |-> block_minutes, message |-> message]

Token(token) == [type |-> "Token", token |-> token]

Limit(limit, block_minutes, message) ==
  [type |-> "Limit", limit |-> limit, block_minutes |-> block_minutes, message |-> message]

\* for m in mids: if isinstance(m, T): ... break -- the index of the first
\* record of one of the types, 0 when there is none
FirstOfType(mids, types) ==
  LET hits == {i \in DOMAIN mids : mids[i].type \in types}
  IN  IF hits = {} THEN 0 ELSE CHOOSE i \in hits : \A j \in hits : i <= j

\* dict.pop(k, None)
DictPop(d, k) == [x \in (DOMAIN d) \ {k} |-> d[x]]

\* no exception raised
NoError == [code |-> 0, detail |-> <<>>, headers |-> {}]

\* Error(status_code, detail, headers)
Error(code, detail, headers) == [code |-> code, detail |-> detail, headers |-> headers]

\* the three process-wide maps as one value: b is blocked_ips, f is
\* _auth_failures, r is rate_limits
Maps(b, f, r) == [b |-> b, f |-> f, r |-> r]

\* blocked_until of a new block record
\* blocked_until with a negative block_minutes taken as no duration
BlockedUntilNeverPermanent(block_minutes, t) ==
  IF block_minutes <= 0 THEN t
  ELSE t + block_minutes * MinuteSeconds

BlockedUntil(block_minutes, t) ==
  IF block_minutes < 0 THEN NoneTime
  ELSE IF block_minutes = 0 THEN t
  ELSE t + block_minutes * MinuteSeconds

\* a block record counted as in force only when it never expires
BlockInForcePermanentOnly(info, t) == info.blocked_until = NoneTime

\* blocked_until is None or blocked_until > now
BlockInForce(info, t) == info.blocked_until = NoneTime \/ info.blocked_until > t

\* the threshold taken as reached only when it is exceeded
AttemptsExceeded(failures, block_mid) == Len(failures) > block_mid.attempts

\* len(failures) >= int(block_mid.attempts)
AttemptsReached(failures, block_mid) == Len(failures) >= block_mid.attempts

\* the failures kept whatever their age
PrunedNever(failures, window_start) == failures

\* [t for t in failures if t >= window_start]
Pruned(failures, window_start) == SelectSeq(failures, LAMBDA x : x >= window_start)

\* _enforce_ip_block(request, mids, status_code) at time t: the maps after
\* the call and the Error it raises, if any
\* the message of the Block of the route that is being checked
RouteMessage(info, block_mid) == block_mid.message

\* info.get("message", block_mid.message): every record stored has the key
StoredMessage(info, block_mid) == info.message

\* the block stored and the failures of the IP left in place
InstallKeepingFailures(st, ip, info) == [st EXCEPT !.b = DictSet(@, ip, info)]

\* blocked_ips[ip] = {...}; _auth_failures.pop(ip, None)
Install(st, ip, info) == [st EXCEPT !.b = DictSet(@, ip, info), !.f = DictPop(@, ip)]

_enforce_ip_block(st, mids, ip, status_code, t) ==
  LET bi == FirstOfType(mids, {"Block"}) IN
  IF mids = <<>> \/ bi = 0 THEN [st |-> st, err |-> NoError]
  ELSE
    LET block_mid == mids[bi]
        known == ip \in DOMAIN st.b
    IN
    IF known /\ BlockInForce(st.b[ip], t)
    THEN [st |-> st, err |-> Error(403, StoredMessage(st.b[ip], block_mid), {})]
    ELSE
      LET st1 == IF known
                 THEN [st EXCEPT !.b = DictPop(@, ip), !.f = DictPop(@, ip)]
                 ELSE st
      IN
      IF status_code = NoCode \/ status_code \notin block_mid.codes
      THEN [st |-> st1, err |-> NoError]
      ELSE
        LET window_start == t - block_mid.interval
            old == IF ip \in DOMAIN st1.f THEN st1.f[ip] ELSE <<>>
            failures == Append(Pruned(old, window_start), t)
        IN
        IF AttemptsReached(failures, block_mid)
        THEN [st |-> Install(st1, ip,
                             [blocked_until |-> BlockedUntil(block_mid.block_minutes, t),
                              message |-> block_mid.message]),
              err |-> Error(403, block_mid.message, {})]
        ELSE [st |-> [st1 EXCEPT !.f = DictSet(@, ip, failures)], err |-> NoError]

Uppers == <<"A", "B", "C", "D", "E", "F", "G", "H", "I", "J", "K", "L", "M",
            "N", "O", "P", "Q", "R", "S", "T", "U", "V", "W", "X", "Y", "Z">>
Lowers == <<"a", "b", "c", "d", "e", "f", "g", "h", "i", "j", "k", "l", "m",
            "n", "o", "p", "q", "r", "s", "t", "u", "v", "w", "x", "y", "z">>

\* str.lower() on ASCII text
LowerChar(c) ==
  IF \E i \in DOMAIN Uppers : Uppers[i] = c
  THEN Lowers[CHOOSE i \in DOMAIN Uppers : Uppers[i] = c] ELSE c

Lower(s) == [i \in DOMAIN s |-> LowerChar(s[i])]

Whitespace == {" "}

\* the index of the first whitespace character of s, 0 when there is none
FirstWs(s) ==
  LET hits == {i \in DOMAIN s : s[i] \in Whitespace}
  IN  IF hits = {} THEN 0 ELSE CHOOSE i \in hits : \A j \in hits : i <= j

\* s.strip().split(None, 1)
SplitOnce(s) ==
  LET t == Strip(s, Whitespace)
      i == FirstWs(t)
  IN  IF t = <<>> THEN <<>>
      ELSE IF i = 0 THEN <<t>>
      ELSE << SubSeq(t, 1, i - 1), LStrip(SubSeq(t, i + 1, Len(t)), Whitespace) >>

\* the credential taken with the X-Api-Token header before Authorization
TokenGotHeaderFirst(req) ==
  LET parts == IF req.authorization # <<>> THEN SplitOnce(req.authorization) ELSE <<>>
      from_auth ==
        IF Len(parts) = 2 /\ Lower(parts[1]) \in { <<"t", "o", "k", "e", "n">>,
                                                   <<"b", "e", "a", "r", "e", "r">> }
        THEN Strip(parts[2], Whitespace) ELSE <<>>
      from_header == IF req.x_api_token # <<>> THEN req.x_api_token ELSE from_auth
  IN  IF from_header # <<>> THEN from_header ELSE req.query_token

\* the credential _enforce_token_auth takes from the request; an absent
\* header or parameter and an empty one are both falsy and are both <<>>
TokenGot(req) ==
  LET parts == IF req.authorization # <<>> THEN SplitOnce(req.authorization) ELSE <<>>
      from_auth ==
        IF Len(parts) = 2 /\ Lower(parts[1]) \in { <<"t", "o", "k", "e", "n">>,
                                                   <<"b", "e", "a", "r", "e", "r">> }
        THEN Strip(parts[2], Whitespace) ELSE <<>>
      from_header == IF from_auth # <<>> THEN from_auth ELSE req.x_api_token
  IN  IF from_header # <<>> THEN from_header ELSE req.query_token

\* _enforce_token_auth(request, mids): the Error it raises, if any
_enforce_token_auth(req, mids) ==
  LET ai == FirstOfType(mids, {"Auth", "Token"}) IN
  IF mids = <<>> \/ ai = 0 THEN NoError
  ELSE IF mids[ai].type = "Token"
       THEN LET got == TokenGot(req) IN
            IF got = <<>> \/ got # mids[ai].token
            THEN Error(401, <<"Unauthorized">>, {"WWW-Authenticate"})
            ELSE NoError
       ELSE Error(500, <<"Unsupported authentication type">>, {})

\* rate_limits.get(ip, {}): has_until says whether the key "blocked_until"
\* (and with it "message") is in the record
NoRateRecord == [timestamps |-> <<>>, has_until |-> FALSE, blocked_until |-> 0, message |-> <<>>]

\* the limit taken as exceeded when it is reached
OverLimitAtLimit(timestamps, limit_mid) == Len(timestamps) >= limit_mid.limit

\* the limit taken as exceeded one request later
OverLimitLate(timestamps, limit_mid) == Len(timestamps) > limit_mid.limit + 1

\* len(timestamps) > int(limit_mid.limit)
OverLimit(timestamps, limit_mid) == Len(timestamps) > limit_mid.limit

\* a rate block that never runs out
StillBlockedForever(ip_record, t) == ip_record.has_until

\* "blocked_until" in ip_record and ip_record["blocked_until"] > now
StillBlocked(ip_record, t) == ip_record.has_until /\ ip_record.blocked_until > t

\* the timestamps kept whatever their age
InWindowAll(timestamps, window_start) == timestamps

\* [t for t in timestamps if t >= window_start]
InWindow(timestamps, window_start) == SelectSeq(timestamps, LAMBDA x : x >= window_start)

\* _enforce_rate_limit(request, mids) at time t.  When an expired block is
\* found the code stores a fresh record and then overwrites it with
\* ip_record, the record it read, so the expired blocked_until stays.
_enforce_rate_limit(st, mids, ip, t) ==
  LET li == FirstOfType(mids, {"Limit"}) IN
  IF mids = <<>> \/ li = 0 THEN [st |-> st, err |-> NoError]
  ELSE
    LET limit_mid == mids[li]
        ip_record == IF ip \in DOMAIN st.r THEN st.r[ip] ELSE NoRateRecord
    IN
    IF StillBlocked(ip_record, t)
    THEN [st |-> st, err |-> Error(429, ip_record.message, {})]
    ELSE
      LET window_start == t - MinuteSeconds
          timestamps == Append(InWindow(ip_record.timestamps, window_start), t)
      IN
      IF OverLimit(timestamps, limit_mid)
      THEN [st |-> [st EXCEPT !.r = DictSet(@, ip,
                      [timestamps |-> timestamps, has_until |-> TRUE,
                       blocked_until |-> t + limit_mid.block_minutes * MinuteSeconds,
                       message |-> limit_mid.message])],
            err |-> Error(429, limit_mid.message, {})]
      ELSE [st |-> [st EXCEPT !.r = DictSet(@, ip,
                      [ip_record EXCEPT !.timestamps = timestamps])],
            err |-> NoError]

(***************************************************************************)
(* The dispatch callback API.__call__                                      *)
(***************************************************************************)

\* most clock steps in one behaviour
MaxTicks == 3
\* seconds per clock step
TickSeconds == 30

HasType(mids, type) == FirstOfType(mids, {type}) # 0

IPs == {"10.0.0.1", "10.0.0.2"}
Conns == {"c1"}

\* None in a text field
NoneValue == <<>>

Secret == <<"s">>
BearerGood == <<"B", "e", "a", "r", "e", "r", " ", "s">>

\* the middleware records of the applications
BlockA == Block({401}, 3, 30, -1, <<"Blocked IP.">>)
BlockT == Block({401}, 1, 30, 1, <<"Blocked for a minute.">>)
BlockP == Block({401}, 1, 30, -1, <<"Blocked.">>)
\* a Block whose blocks have no duration
BlockZ == Block({401}, 1, 30, 0, <<"Blocked now.">>)
TokenA == Token(Secret)
LimitA == Limit(2, 1, <<"Too many requests.">>)
\* a Limit whose blocks outlast the window
LimitB == Limit(2, 2, <<"Too many requests.">>)

OpenPath == <<"/", "o", "p", "e", "n">>
SecPath == <<"/", "s", "e", "c">>
BlkPath == <<"/", "b", "l", "k">>
TmpPath == <<"/", "t", "m", "p">>
LimPath == <<"/", "l", "i", "m">>
NopePath == <<"/", "n", "o", "p", "e">>
ZeroPath == <<"/", "z">>

\* the route tables of the applications: the introspection entries of
\* API.__init__ followed by the routes the application registers
AppBlock ==
  HelpEntries \o
  << RegisteredEntry(get, OpenPath, "open", NoMids),
     RegisteredEntry(get, BlkPath, "blk", <<BlockA>>) >>
AppTimed ==
  HelpEntries \o
  << RegisteredEntry(get, OpenPath, "free", NoMids),
     RegisteredEntry(get, TmpPath, "tmp", <<BlockT>>) >>
AppLimit ==
  HelpEntries \o
  << RegisteredEntry(get, LimPath, "lim", <<LimitA>>) >>
AppSecure ==
  HelpEntries \o
  << RegisteredEntry(get, SecPath, "sec", <<BlockA, TokenA, LimitA>>) >>

AppPair ==
  HelpEntries \o
  << RegisteredEntry(get, SecPath, "pair", <<BlockP, TokenA>>) >>

AppZero ==
  HelpEntries \o
  << RegisteredEntry(get, ZeroPath, "zero", <<BlockZ>>) >>

AppLong ==
  HelpEntries \o
  << RegisteredEntry(get, LimPath, "long", <<LimitB>>) >>

\* two routes that carry the same Limit
Lim2Path == <<"/", "l", "2">>
AppShared ==
  HelpEntries \o
  << RegisteredEntry(get, LimPath, "lim", <<LimitA>>),
     RegisteredEntry(get, Lim2Path, "lim2", <<LimitA>>) >>

\* two routes that carry different Blocks
BlockX == Block({401}, 2, 30, -1, <<"Blocked by x.">>)
XPath == <<"/", "x">>
YPath == <<"/", "y">>
AppBlocks ==
  HelpEntries \o
  << RegisteredEntry(get, XPath, "any", <<BlockX>>),
     RegisteredEntry(get, YPath, "any", <<BlockA>>) >>

\* an API created with a middleware set, which its routes take over, and
\* with a route registered under /help/
ApiMids == <<BlockP, LimitA>>
HelpXPath == HelpPath \o <<"/", "x">>
AppHelp ==
  HelpEntries \o
  << RegisteredEntry(get, HelpXPath, "any", ApiMids),
     RegisteredEntry(get, OpenPath, "open", ApiMids) >>

Apps == {AppBlock, AppTimed, AppLimit, AppSecure, AppPair, AppZero, AppLong}

\* the clients of an application: two of them where the application's
\* state is small
Clients(rs) == IF rs = AppPair THEN IPs ELSE {"10.0.0.1"}

Request(ip, method, path, authorization) ==
  [ip |-> ip, method |-> method, path |-> path, authorization |-> authorization,
   x_api_token |-> <<>>, query_token |-> <<>>]

\* the requests sent to an application with the route table rs: to each of
\* its paths and to one it does not have, with or without the Bearer token
\* where a route asks for one
Requests(rs) ==
  { Request(ip, GET, p, <<>>) :
      ip \in Clients(rs), p \in {rs[i].path : i \in DOMAIN rs} \cup {NopePath} }
  \cup { Request(ip, GET, rs[i].path, BearerGood) :
           ip \in Clients(rs), i \in {j \in DOMAIN rs : HasType(rs[j].mids, "Token")} }

NoReq == Request("", <<>>, <<>>, <<>>)
\* what held when a request arrived: the state of the IP's block record,
\* whether the IP had three 401-coded outcomes on Block routes within 30
\* seconds, whether it had three 401 responses within 30 seconds, how many of
\* its last two 401-coded outcomes fell in the last 30 seconds, the place of
\* the request in the IP's window of rate-checked requests (0 outside one),
\* how many failures auth_failures held for the IP, whatever their age, how
\* many of the timestamps rate_limits held for the IP were more than 60
\* seconds old
NoPre == [block |-> "none", hit |-> FALSE, three401 |-> FALSE, fails |-> 0, rl_k |-> 0,
          stored |-> 0, rl_old |-> 0]
NoResp == [status |-> "none", code |-> 0, data |-> NoneValue, message |-> NoneValue]
IdleConn == [pc |-> "idle", req |-> NoReq, idx |-> 0, pre |-> NoPre, steps |-> <<>>,
             stamped |-> FALSE]
NoLast == [c |-> "", at |-> "none", req |-> NoReq, idx |-> 0, pre |-> NoPre,
           steps |-> <<>>, stamped |-> FALSE, err |-> NoError, code |-> NoCode,
           raised |-> FALSE, resp |-> NoResp]

\* what _build_kwargs does with the request: succeeds, raises
\* Error(422, "missing required parameter ..."), or raises TypeError
BindOutcomes == {"ok", "missing", "type"}

\* what the user's function does: returns an envelope with a code, or raises
\* an exception that is neither Error nor TypeError
HandlerOutcomes ==
  { [kind |-> "return", code |-> 200], [kind |-> "return", code |-> 401],
    [kind |-> "exception", code |-> 500] }

\* the functions of the applications: "blk" declares a required parameter
\* and answers 200 or 401 or fails; "open", "free" and "tmp" take no
\* parameter and answer 200 or 401, as do "any" and "zero"; the others
\* answer 200
Binds(name) == IF name = "blk" THEN BindOutcomes ELSE {"ok"}
Outcomes(name) ==
  IF name = "blk" THEN HandlerOutcomes
  ELSE IF name \in {"open", "free", "tmp", "any", "zero"}
       THEN { [kind |-> "return", code |-> 200], [kind |-> "return", code |-> 401] }
       ELSE { [kind |-> "return", code |-> 200] }

MapsNow == Maps(blocked_ips, auth_failures, rate_limits)

\* the state of the IP's record in blocked_ips at time t
BlockState(b, ip, t) ==
  IF ip \notin DOMAIN b THEN "none"
  ELSE IF b[ip].blocked_until = NoneTime THEN "permanent"
  ELSE IF b[ip].blocked_until > t THEN "future"
  ELSE "expired"

\* rate_limits holds an unexpired block for the IP at time t
RateBlockInForce(r, ip, t) ==
  ip \in DOMAIN r /\ r[ip].has_until /\ r[ip].blocked_until > t

\* the timestamps rate_limits holds for the IP that lie before the window
\* of one minute that ends at time t
OlderThanWindow(r, ip, t) ==
  IF ip \in DOMAIN r
  THEN SelectSeq(r[ip].timestamps, LAMBDA x : x < t - MinuteSeconds)
  ELSE <<>>

\* the pre-handler checks of API.__call__ with the token check moved first
PreChecksTokenFirst(st, mids, req, t) ==
  IF mids = <<>> THEN [st |-> st, err |-> NoError, steps |-> <<>>]
  ELSE
    LET a == _enforce_token_auth(req, mids) IN
    IF a # NoError THEN [st |-> st, err |-> a, steps |-> <<"token">>]
    ELSE
      LET b == _enforce_ip_block(st, mids, req.ip, NoCode, t) IN
      IF b.err # NoError THEN [st |-> b.st, err |-> b.err, steps |-> <<"token", "block">>]
      ELSE
        LET r == _enforce_rate_limit(b.st, mids, req.ip, t) IN
        [st |-> r.st, err |-> r.err, steps |-> <<"token", "block", "limit">>]

\* the pre-handler checks of API.__call__: block, token, rate limit, each
\* called only when the one before raised nothing; steps names the calls made
\* the pre-handler checks run for all three records whatever the set holds
PreChecksAll(st, mids, req, t) ==
  LET b == _enforce_ip_block(st, <<BlockT, TokenA, LimitA>>, req.ip, NoCode, t) IN
  IF b.err # NoError THEN [st |-> b.st, err |-> b.err, steps |-> <<"block">>]
  ELSE
    LET a == _enforce_token_auth(req, <<BlockT, TokenA, LimitA>>) IN
    IF a # NoError THEN [st |-> b.st, err |-> a, steps |-> <<"block", "token">>]
    ELSE
      LET r == _enforce_rate_limit(b.st, <<BlockT, TokenA, LimitA>>, req.ip, t) IN
      [st |-> r.st, err |-> r.err, steps |-> <<"block", "token", "limit">>]

PreChecks(st, mids, req, t) ==
  IF mids = <<>> THEN [st |-> st, err |-> NoError, steps |-> <<>>]
  ELSE
    LET b == _enforce_ip_block(st, mids, req.ip, NoCode, t) IN
    IF b.err # NoError THEN [st |-> b.st, err |-> b.err, steps |-> <<"block">>]
    ELSE
      LET a == _enforce_token_auth(req, mids) IN
      IF a # NoError THEN [st |-> b.st, err |-> a, steps |-> <<"block", "token">>]
      ELSE
        LET r == _enforce_rate_limit(b.st, mids, req.ip, t) IN
        [st |-> r.st, err |-> r.err, steps |-> <<"block", "token", "limit">>]

\* the block check run with the outcome's status code, in the except
\* branches and after the handler returned
PostBlock(st, mids, ip, code, t) ==
  IF mids = <<>> THEN [st |-> st, err |-> NoError]
  ELSE _enforce_ip_block(st, mids, ip, code, t)

\* the methods of Logger (debug, info, ..., client_error)
LoggerMethods ==
  {"debug", "info", "warning", "warn", "error", "err", "critical",
   "client_warning", "client_error"}

\* Logger with a method client added
LogRaisesNever(name) == FALSE

\* log.<name>(...): an AttributeError when Logger has no method of that
\* name; the methods themselves raise nothing, Logger._log swallows every
\* exception
LogRaises(name) == name \notin LoggerMethods

\* how API.__call__ ends: its envelope goes to _send_response, or an
\* exception leaves it and nothing is sent; st is what the maps hold then
\* the envelope is sent and a 404 is recorded as a failure of the client
SendsCounting404(st, resp) ==
  [st |-> IF resp.code = 404 THEN [st EXCEPT !.f = DictSet(@, "10.0.0.1", <<now>>)] ELSE st,
   resp |-> resp, raised |-> FALSE]
Sends(st, resp) == [st |-> st, resp |-> resp, raised |-> FALSE]
Escapes(st) == [st |-> st, resp |-> NoResp, raised |-> TRUE]

\* except Error as exc: log.client, then the block check with the code of
\* exc; the envelope of the block check's Error when it raises, of exc otherwise
AfterError(st, mids, ip, exc, t) ==
  IF LogRaises("client") THEN Escapes(st)
  ELSE LET p == PostBlock(st, mids, ip, exc.code, t) IN
       Sends(p.st, IF p.err # NoError THEN ErrorResponse(p.err.code, p.err.detail)
                   ELSE ErrorResponse(exc.code, exc.detail))

\* except TypeError as exc: the exception object is no str, so the message is None
AfterTypeError(st, mids, ip, t) ==
  IF LogRaises("client") THEN Escapes(st)
  ELSE LET p == PostBlock(st, mids, ip, 422, t) IN
       Sends(p.st, IF p.err # NoError THEN ErrorResponse(p.err.code, p.err.detail)
                   ELSE [status |-> "failure", code |-> 422,
                         data |-> IfJson(<<"TypeError">>), message |-> NoneValue])

\* except Exception as exc: self._debug is never set by API.__init__, so the
\* detail is the generic text
AfterException(st, mids, ip, t) ==
  IF LogRaises("error") \/ LogRaises("client") THEN Escapes(st)
  ELSE LET p == PostBlock(st, mids, ip, 500, t)
           detail == <<"Internal Server Error">>
       IN
       Sends(p.st, IF p.err # NoError
                   THEN [status |-> "failure", code |-> p.err.code,
                         data |-> NoneValue, message |-> p.err.detail]
                   ELSE ErrorResponse(500, detail))

\* the handler's envelope logged and sent without the block check
AfterReturnUnchecked(st, mids, ip, code, t) ==
  IF LogRaises("client") THEN Escapes(st)
  ELSE Sends(st, [status |-> IF code < 400 THEN "success" ELSE "failure",
                  code |-> code, data |-> <<"data">>, message |-> NoneValue])

\* the block check made on a copy of the failures read before anything was
\* recorded for the IP, and written back over what was recorded since
AfterReturnStale(st, mids, ip, code, t) ==
  LET p == PostBlock([st EXCEPT !.f = DictPop(@, ip)], mids, ip, code, t) IN
  IF LogRaises("client") THEN Escapes(p.st)
  ELSE Sends(p.st, IF p.err # NoError THEN ErrorResponse(p.err.code, p.err.detail)
                   ELSE [status |-> IF code < 400 THEN "success" ELSE "failure",
                         code |-> code, data |-> <<"data">>, message |-> NoneValue])

\* the handler returned an envelope: _to_response_model passes it through,
\* the block check runs with its code, then the outcome is logged with
\* log.client
AfterReturn(st, mids, ip, code, t) ==
  LET p == PostBlock(st, mids, ip, code, t) IN
  IF LogRaises("client") THEN Escapes(p.st)
  ELSE Sends(p.st, IF p.err # NoError THEN ErrorResponse(p.err.code, p.err.detail)
                   ELSE [status |-> IF code < 400 THEN "success" ELSE "failure",
                         code |-> code, data |-> <<"data">>, message |-> NoneValue])

\* _help_main: the listing of the routes registered outside /help
HelpResponse ==
  [status |-> "success", code |-> 200, data |-> <<"endpoints">>,
   message |-> <<"Main helper endpoint.">>]

\* the last two of the times in q followed by t
LastTwo(q, t) == IF Len(q) < 2 THEN Append(q, t) ELSE <<q[2], t>>

\* the history after a request of the IP that ended at time t on a route
\* with the middleware set mids: code is the status code of its outcome
\* (of the Error raised or of the envelope returned), resp_code the code it
\* ended with (of the envelope sent, or of the outcome when none was sent)
History(mids, ip, code, resp_code, t) ==
  LET counts == HasType(mids, "Block") /\ code = 401 IN
  [fail |-> IF counts THEN [g_fail EXCEPT ![ip] = LastTwo(@, t)] ELSE g_fail,
   hit |-> IF counts
           THEN [g_hit EXCEPT ![ip] = @ \/ (Len(g_fail[ip]) = 2 /\ t - g_fail[ip][1] <= 30)]
           ELSE g_hit,
   resp |-> IF resp_code = 401 THEN [g_resp EXCEPT ![ip] = LastTwo(@, t)] ELSE g_resp,
   three |-> IF resp_code = 401
             THEN [g_three EXCEPT ![ip] =
                     @ \/ (Len(g_resp[ip]) = 2 /\ t - g_resp[ip][1] <= 30)]
             ELSE g_three]

SetHistory(h) ==
  /\ g_fail' = h.fail
  /\ g_hit' = h.hit
  /\ g_resp' = h.resp
  /\ g_three' = h.three

NoWindow == [start |-> 0, n |-> 0, k |-> 0, lastt |-> NoneTime, passed |-> <<>>]

\* the IP's window of rate-checked requests after one more at time t: a
\* window starts with a request that finds no unexpired rate block and no
\* rate-checked request of the IP in the 60 seconds before it, and holds the
\* requests of the next 60 seconds; n is the number of requests in it, k
\* the number of those that found no rate block in force (open); passed
\* holds the times of the last 60 seconds at which a request of the IP went
\* through the rate-limit check without an Error
WindowAfter(w, fresh, open, limit, t) ==
  IF fresh THEN [start |-> t, n |-> 1, k |-> 1, lastt |-> t, passed |-> w.passed]
  ELSE IF w.n > 0 /\ t <= w.start + 60
       THEN [w EXCEPT !.n = IF @ < limit + 2 THEN @ + 1 ELSE @,
                      !.k = IF open /\ @ < limit + 2 THEN @ + 1 ELSE @,
                      !.lastt = t]
       ELSE [start |-> 0, n |-> 0, k |-> 0, lastt |-> t, passed |-> w.passed]

SetMaps(st) ==
  /\ blocked_ips' = st.b
  /\ auth_failures' = st.f
  /\ rate_limits' = st.r

DispatchInit ==
  /\ now = 0
  /\ blocked_ips = EmptyDict
  /\ auth_failures = EmptyDict
  /\ rate_limits = EmptyDict
  /\ conn = [c \in Conns |-> IdleConn]
  /\ last = NoLast
  /\ g_fail = [ip \in IPs |-> <<>>]
  /\ g_hit = [ip \in IPs |-> FALSE]
  /\ g_resp = [ip \in IPs |-> <<>>]
  /\ g_three = [ip \in IPs |-> FALSE]
  /\ g_win = [ip \in IPs |-> NoWindow]

DispatchIdle == DispatchInit

\* what held for the IP when its request arrived
Arrival(ip) ==
  [block |-> BlockState(blocked_ips, ip, now),
   hit |-> g_hit[ip],
   three401 |-> g_three[ip],
   fails |-> Len(g_fail[ip]),
   rl_k |-> 0,
   stored |-> IF ip \in DOMAIN auth_failures THEN Len(auth_failures[ip]) ELSE 0,
   rl_old |-> Len(OlderThanWindow(rate_limits, ip, now))]

\* the end of API.__call__ for the request of connection c: the response
\* x.resp is sent, or an exception leaves the call, and the maps are as the
\* checks left them; err is the Error raised by a check or by the binding,
\* code the status code of the outcome before the last block check
Respond(c, req, idx, pre, at, steps, stamped, mids, err, code, x) ==
  /\ last' = [c |-> c, at |-> at, req |-> req, idx |-> idx, pre |-> pre,
              steps |-> steps, stamped |-> stamped, err |-> err, code |-> code,
              raised |-> x.raised, resp |-> x.resp]
  /\ SetMaps(x.st)
  /\ SetHistory(History(mids, req.ip, code, IF x.raised THEN code ELSE x.resp.code, now))

\* the steps of an except branch of API.__call__ after its log.client: the
\* block check with the code of the exception, then _send_response
ExceptSteps == IF LogRaises("client") THEN <<>> ELSE <<"post_block", "send">>

\* the block check made on what the handler returned, before its
\* normalization
ReturnStepsBlockFirst ==
  <<"post_block", "normalize">> \o (IF LogRaises("client") THEN <<>> ELSE <<"send">>)

\* the steps of API.__call__ after the handler returned: _to_response_model,
\* the block check with resp_model.code, and after the log.client of the
\* outcome _send_response
ReturnSteps ==
  <<"normalize", "post_block">> \o (IF LogRaises("client") THEN <<>> ELSE <<"send">>)

\* the request reached the rate-limit check of a route that has a Limit
RateChecked(mids, pc) ==
  HasType(mids, "Limit") /\ pc.steps # <<>> /\ pc.steps[Len(pc.steps)] = "limit"

\* the windows of rate-checked requests after the pre-handler checks pc
WindowsAfter(ip, mids, pc) ==
  IF RateChecked(mids, pc)
  THEN [g_win EXCEPT ![ip] =
          [WindowAfter(@,
                       /\ ~RateBlockInForce(rate_limits, ip, now)
                       /\ (g_win[ip].lastt = NoneTime \/ g_win[ip].lastt < now - 60),
                       ~RateBlockInForce(rate_limits, ip, now),
                       mids[FirstOfType(mids, {"Limit"})].limit, now)
             EXCEPT !.passed =
               IF pc.err = NoError /\ Len(@) < mids[FirstOfType(mids, {"Limit"})].limit + 2
               THEN Append(@, now) ELSE @]]
  ELSE g_win

\* API.__call__ after the pre-handler checks pc of a route with the
\* middleware set mids: the except branch for a check's Error, the binding
\* of the arguments and its except branches, or the call of the user's function
StartChecked(c, req, bind, idx, mids, pc, pre, stamped) ==
  IF pc.err # NoError
  THEN /\ Respond(c, req, idx, pre, "rejected",
                  <<"route">> \o pc.steps \o ExceptSteps, stamped, mids,
                  pc.err, pc.err.code, AfterError(pc.st, mids, req.ip, pc.err, now))
       /\ UNCHANGED conn
  ELSE IF bind \notin Binds(routes[idx].name)
  THEN FALSE
  ELSE IF bind = "missing"
  THEN /\ Respond(c, req, idx, pre, "bind",
                  <<"route">> \o pc.steps \o <<"bind">> \o ExceptSteps, stamped, mids,
                  Error(422, <<"missing required parameter">>, {}),
                  422, AfterError(pc.st, mids, req.ip,
                                  Error(422, <<"missing required parameter">>, {}), now))
       /\ UNCHANGED conn
  ELSE IF bind = "type"
  THEN /\ Respond(c, req, idx, pre, "bind",
                  <<"route">> \o pc.steps \o <<"bind">> \o ExceptSteps, stamped, mids,
                  NoError, 422, AfterTypeError(pc.st, mids, req.ip, now))
       /\ UNCHANGED conn
  ELSE /\ conn' = [conn EXCEPT ![c] =
                     [pc |-> "handler", req |-> req, idx |-> idx, pre |-> pre,
                      steps |-> <<"route">> \o pc.steps \o <<"bind", "handler">>,
                      stamped |-> stamped]]
       /\ SetMaps(pc.st)
       /\ UNCHANGED <<last, g_fail, g_hit, g_resp, g_three>>

\* API.__call__ for a request resolved to res
StartResolved(c, req, bind, res) ==
  IF res.kind = "notfound"
  THEN /\ Respond(c, req, 0, Arrival(req.ip), "notfound", <<"route", "send">>, FALSE, NoMids,
                  NoError, res.resp.code, Sends(MapsNow, res.resp))
       /\ UNCHANGED <<conn, g_win>>
  ELSE IF IsHelpPath(routes[res.idx].path)
  THEN /\ Respond(c, req, res.idx, Arrival(req.ip), "help",
                  <<"route", "handler", "normalize", "send">>, FALSE,
                  NoMids, NoError, HelpResponse.code, Sends(MapsNow, HelpResponse))
       /\ UNCHANGED <<conn, g_win>>
  ELSE \E pc \in {PreChecks(MapsNow, routes[res.idx].mids, req, now)} :
       \E win \in {WindowsAfter(req.ip, routes[res.idx].mids, pc)} :
         /\ StartChecked(c, req, bind, res.idx, routes[res.idx].mids, pc,
                         [Arrival(req.ip) EXCEPT
                            !.rl_k = IF RateChecked(routes[res.idx].mids, pc)
                                     THEN win[req.ip].n ELSE 0],
                         pc.st.r # rate_limits)
         /\ g_win' = win

\* API.__call__ from the receipt of a request on connection c to the first
\* point where it is suspended (the user's function) or to its response:
\* route resolution, the pre-handler checks, the binding of the arguments
Start(c, req, bind) ==
  /\ conn[c].pc = "idle"
  /\ \E res \in {ResolveRoute(routes, req.method, req.path)} :
       StartResolved(c, req, bind, res)
  /\ UNCHANGED <<now, notDispatch>>

\* API.__call__ from the return of the user's function on connection c to
\* the response: normalisation, the block check with the outcome's code,
\* _send_response
Finish(c, outcome) ==
  /\ conn[c].pc = "handler"
  /\ outcome \in Outcomes(routes[conn[c].idx].name)
  /\ Respond(c, conn[c].req, conn[c].idx, conn[c].pre, "finished",
             conn[c].steps \o (IF outcome.kind = "return" THEN ReturnSteps ELSE ExceptSteps),
             conn[c].stamped, routes[conn[c].idx].mids, NoError, outcome.code,
             IF outcome.kind = "return"
             THEN AfterReturn(MapsNow, routes[conn[c].idx].mids, conn[c].req.ip,
                              outcome.code, now)
             ELSE AfterException(MapsNow, routes[conn[c].idx].mids, conn[c].req.ip, now))
  /\ conn' = [conn EXCEPT ![c] = IdleConn]
  /\ UNCHANGED <<now, g_win, notDispatch>>

\* the window w at time t: closed once its 60 seconds are over, and its
\* last request forgotten once it is more than 60 seconds old
WindowAt(w, t) ==
  [start |-> IF w.n > 0 /\ t <= w.start + 60 THEN w.start ELSE 0,
   n |-> IF w.n > 0 /\ t <= w.start + 60 THEN w.n ELSE 0,
   k |-> IF w.n > 0 /\ t <= w.start + 60 THEN w.k ELSE 0,
   lastt |-> IF w.lastt # NoneTime /\ w.lastt >= t - 60 THEN w.lastt ELSE NoneTime,
   passed |-> SelectSeq(w.passed, LAMBDA x : x >= t - 60)]

\* time passes; the history keeps what the last 30 and 60 seconds hold
Tick ==
  /\ now < MaxTicks * TickSeconds
  /\ now' = now + TickSeconds
  /\ g_fail' = [ip \in IPs |-> SelectSeq(g_fail[ip], LAMBDA x : x >= now' - 30)]
  /\ g_resp' = [ip \in IPs |-> SelectSeq(g_resp[ip], LAMBDA x : x >= now' - 30)]
  /\ g_win' = [ip \in IPs |-> WindowAt(g_win[ip], now')]
  /\ UNCHANGED <<mapVars, conn, last, g_hit, g_three, notDispatch>>

(***************************************************************************)
(* The parameter binder: Request, _parse_literal, _build_kwargs            *)
(***************************************************************************)

\* Python values
PyStr(s) == [t |-> "str", s |-> s]
PyInt(n) == [t |-> "int", n |-> n]
PyBool(b) == [t |-> "bool", b |-> b]
PyFloat(s) == [t |-> "float", s |-> s]
PyNone == [t |-> "none"]
PyList(items) == [t |-> "list", items |-> items]
PySet(items) == [t |-> "set", elems |-> {items[i] : i \in DOMAIN items}]
PyTuple(items) == [t |-> "tuple", items |-> items]
PyDict(d) == [t |-> "dict", d |-> d]
PyModel(d) == [t |-> "model", d |-> d]
PyRequest == [t |-> "request"]

Digits == {"0", "1", "2", "3", "4", "5", "6", "7", "8", "9"}
DigitString == <<"0", "1", "2", "3", "4", "5", "6", "7", "8", "9">>
DigitValue(c) == (CHOOSE i \in DOMAIN DigitString : DigitString[i] = c) - 1

\* str.isdigit()
IsDigits(s) == s # <<>> /\ \A i \in DOMAIN s : s[i] \in Digits

RECURSIVE DigitsToInt(_)
DigitsToInt(s) ==
  IF s = <<>> THEN 0
  ELSE 10 * DigitsToInt(SubSeq(s, 1, Len(s) - 1)) + DigitValue(s[Len(s)])

\* (s.startswith(("+", "-")) and s[1:].isdigit()) or s.isdigit()
IsIntText(s) ==
  \/ s # <<>> /\ s[1] \in {"+", "-"} /\ IsDigits(Tail(s))
  \/ IsDigits(s)

\* int(s) on a text that passed IsIntText
IntOf(s) ==
  IF s[1] = "-" THEN 0 - DigitsToInt(Tail(s))
  ELSE IF s[1] = "+" THEN DigitsToInt(Tail(s))
  ELSE DigitsToInt(s)

\* the index of the first character of s that is in cs, 0 when there is none
FirstIn(s, cs) ==
  LET hits == {i \in DOMAIN s : s[i] \in cs}
  IN  IF hits = {} THEN 0 ELSE CHOOSE i \in hits : \A j \in hits : i <= j

Unsigned(s) == IF s # <<>> /\ s[1] \in {"+", "-"} THEN Tail(s) ELSE s

\* digits, with at most one "." among them and a digit on one side of it
IsDecimalText(s) ==
  LET dot == FirstIn(s, {"."})
      whole == IF dot = 0 THEN s ELSE SubSeq(s, 1, dot - 1)
      frac == IF dot = 0 THEN <<>> ELSE SubSeq(s, dot + 1, Len(s))
  IN  /\ whole = <<>> \/ IsDigits(whole)
      /\ frac = <<>> \/ IsDigits(frac)
      /\ whole # <<>> \/ frac # <<>>

\* float(s) succeeds: inf, infinity and nan in any case, or a decimal with
\* an optional exponent, each after an optional sign
IsFloatText(s) ==
  LET u == Unsigned(s)
      e == FirstIn(u, {"e", "E"})
  IN  \/ Lower(u) \in { <<"i", "n", "f">>, <<"n", "a", "n">>,
                        <<"i", "n", "f", "i", "n", "i", "t", "y">> }
      \/ e = 0 /\ IsDecimalText(u)
      \/ /\ e > 0
         /\ IsDecimalText(SubSeq(u, 1, e - 1))
         /\ IsDigits(Unsigned(SubSeq(u, e + 1, Len(u))))

True == <<"t", "r", "u", "e">>
False == <<"f", "a", "l", "s", "e">>
Null == <<"n", "u", "l", "l">>
NoneText == <<"n", "o", "n", "e">>

\* a coercion pass that leaves every text as it is
ParseLiteralKeepsText(value) == value

\* _parse_literal(value)
_parse_literal(value) ==
  IF value.t # "str" THEN value
  ELSE
    LET s == Strip(value.s, Whitespace)
        low == Lower(s)
    IN  IF low \in {True, False} THEN PyBool(low = True)
        ELSE IF low \in {Null, NoneText} THEN PyNone
        ELSE IF IsIntText(s) THEN PyInt(IntOf(s))
        ELSE IF IsFloatText(s) THEN PyFloat(s)
        ELSE value

\* _looks_like_json(s)
_looks_like_json(value) ==
  /\ value.t = "str"
  /\ LET t == Strip(value.s, Whitespace) IN
       \/ StartsWith(t, <<"{">>) /\ EndsWith(t, <<"}">>)
       \/ StartsWith(t, <<"[">>) /\ EndsWith(t, <<"]">>)

\* a JSON number without exponent: -?(0|[1-9][0-9]*)(.[0-9]+)?
IsJsonNumber(s) ==
  LET u == IF s # <<>> /\ s[1] = "-" THEN Tail(s) ELSE s
      dot == FirstIn(u, {"."})
      whole == IF dot = 0 THEN u ELSE SubSeq(u, 1, dot - 1)
      frac == IF dot = 0 THEN <<>> ELSE SubSeq(u, dot + 1, Len(u))
  IN  /\ IsDigits(whole)
      /\ Len(whole) = 1 \/ whole[1] # "0"
      /\ dot = 0 \/ IsDigits(frac)

\* a JSON scalar written without quotes
IsJsonScalar(s) == s \in {True, False, Null} \/ IsJsonNumber(s)

JsonScalar(s) ==
  IF s = True THEN PyBool(TRUE)
  ELSE IF s = False THEN PyBool(FALSE)
  ELSE IF s = Null THEN PyNone
  ELSE IF FirstIn(s, {"."}) = 0 THEN PyInt(IntOf(s))
  ELSE PyFloat(s)

NoJson == [ok |-> FALSE]

\* json.loads(text) on texts without quotes and without nesting: the empty
\* object, arrays of scalars, and scalars; anything else fails to decode
JsonLoads(text) ==
  LET t == Strip(text, Whitespace) IN
  IF StartsWith(t, <<"{">>) /\ EndsWith(t, <<"}">>) /\ Len(t) >= 2
  THEN IF Strip(SubSeq(t, 2, Len(t) - 1), Whitespace) = <<>>
       THEN [ok |-> TRUE, value |-> PyDict(EmptyDict)]
       ELSE NoJson
  ELSE IF StartsWith(t, <<"[">>) /\ EndsWith(t, <<"]">>) /\ Len(t) >= 2
  THEN LET inner == Strip(SubSeq(t, 2, Len(t) - 1), Whitespace)
           items == Split(inner, ",")
           texts == [i \in DOMAIN items |-> Strip(items[i], Whitespace)]
       IN  IF inner = <<>> THEN [ok |-> TRUE, value |-> PyList(<<>>)]
           ELSE IF \A i \in DOMAIN texts : IsJsonScalar(texts[i])
           THEN [ok |-> TRUE,
                 value |-> PyList([i \in DOMAIN texts |-> JsonScalar(texts[i])])]
           ELSE NoJson
  ELSE IF IsJsonScalar(t) THEN [ok |-> TRUE, value |-> JsonScalar(t)]
  ELSE NoJson

\* _parse_json_maybe(value)
_parse_json_maybe(value) ==
  IF value.t # "str" THEN value
  ELSE IF _looks_like_json(value) /\ JsonLoads(value.s).ok THEN JsonLoads(value.s).value
  ELSE value

\* _maybe_cast_sequence_to_target(seq, ann)
_maybe_cast_sequence_to_target(seq, ann) ==
  IF seq.t # "list" THEN seq
  ELSE IF ann = "Tuple" THEN PyTuple(seq.items)
  ELSE IF ann = "Set" THEN PySet(seq.items)
  ELSE seq

\* the split of s at the first occurrence of the character c
Partition(s, c) ==
  LET i == FirstIn(s, {c}) IN
  IF i = 0 THEN [found |-> FALSE, head |-> s, tail |-> <<>>]
  ELSE [found |-> TRUE, head |-> SubSeq(s, 1, i - 1), tail |-> SubSeq(s, i + 1, Len(s))]

\* urllib's unquote_plus on texts without "%": "+" becomes a space
PlusToSpace(s) == [i \in DOMAIN s |-> IF s[i] = "+" THEN " " ELSE s[i]]

\* dict.setdefault(k, []).append(v)
DictAppend(d, k, v) == DictSet(d, k, IF k \in DOMAIN d THEN Append(d[k], v) ELSE <<v>>)

RECURSIVE QsFrom(_, _, _)
QsFrom(pairs, i, d) ==
  IF i > Len(pairs) THEN d
  ELSE IF pairs[i] = <<>> THEN QsFrom(pairs, i + 1, d)
  ELSE LET nv == Partition(pairs[i], "=") IN
       QsFrom(pairs, i + 1, DictAppend(d, PlusToSpace(nv.head), PlusToSpace(nv.tail)))

\* parse_qs(qs, keep_blank_values=True): name -> list of values
ParseQs(qs) == IF qs = <<>> THEN EmptyDict ELSE QsFrom(Split(qs, "&"), 1, EmptyDict)

RECURSIVE CookiesFrom(_, _, _)
CookiesFrom(items, i, d) ==
  IF i > Len(items) THEN d
  ELSE LET nv == Partition(Strip(items[i], Whitespace), "=") IN
       IF nv.found /\ nv.head # <<>>
       THEN CookiesFrom(items, i + 1, DictSet(d, nv.head, nv.tail))
       ELSE CookiesFrom(items, i + 1, d)

\* SimpleCookie().load(header) on unquoted name=value items
ParseCookies(header) == CookiesFrom(Split(header, ";"), 1, EmptyDict)

ContentType == <<"c", "o", "n", "t", "e", "n", "t", "-", "t", "y", "p", "e">>
ApplicationJson == <<"a", "p", "p", "l", "i", "c", "a", "t", "i", "o", "n", "/", "j", "s", "o", "n">>
Cookie == <<"c", "o", "o", "k", "i", "e">>

\* sub in s
Contains(s, sub) ==
  \E i \in 1..(Len(s) - Len(sub) + 1) : SubSeq(s, i, i + Len(sub) - 1) = sub

\* Request.__init__: the query string parsed, the header names lower-cased
\* (a later header of the same name replaces an earlier one), the cookie
\* header parsed
MakeRequest(scope, path_params) ==
  LET hdrs == [n \in {Lower(scope.headers[i][1]) : i \in DOMAIN scope.headers} |->
                 scope.headers[CHOOSE i \in DOMAIN scope.headers :
                                 /\ Lower(scope.headers[i][1]) = n
                                 /\ \A j \in DOMAIN scope.headers :
                                      Lower(scope.headers[j][1]) = n => j <= i][2]]
  IN  [query_params |-> ParseQs(scope.query_string),
       path_params |-> path_params,
       headers |-> hdrs,
       cookies |-> IF Cookie \in DOMAIN hdrs /\ hdrs[Cookie] # <<>>
                   THEN ParseCookies(hdrs[Cookie]) ELSE EmptyDict,
       body |-> scope.body]

\* QueryParams.getlist(name)
GetList(request, name) ==
  IF name \in DOMAIN request.query_params THEN request.query_params[name] ELSE <<>>

\* _parse_query_value(name, ann, request)
_parse_query_value(name, ann, request) ==
  LET vals == GetList(request, name) IN
  IF Len(vals) > 1
  THEN _maybe_cast_sequence_to_target(
         PyList([i \in DOMAIN vals |-> _parse_literal(PyStr(vals[i]))]), ann)
  ELSE IF Len(vals) = 1
  THEN LET v == vals[1]
           parts == Split(v, ",")
       IN  IF _looks_like_json(PyStr(v)) /\ JsonLoads(v).ok
           THEN _maybe_cast_sequence_to_target(JsonLoads(v).value, ann)
           ELSE IF FirstIn(v, {","}) # 0
           THEN _maybe_cast_sequence_to_target(
                  PyList([i \in DOMAIN parts |-> _parse_literal(PyStr(parts[i]))]), ann)
           ELSE _parse_literal(PyStr(v))
  ELSE PyNone

\* _read_body(request)
_read_body(request) ==
  LET ctype == IF ContentType \in DOMAIN request.headers
               THEN request.headers[ContentType] ELSE <<>>
  IN  IF Contains(ctype, ApplicationJson)
      THEN IF request.body = <<>> THEN PyNone
           ELSE IF JsonLoads(request.body).ok THEN JsonLoads(request.body).value
           ELSE PyNone
      ELSE IF request.body = <<>> THEN PyNone
           ELSE IF JsonLoads(request.body).ok THEN JsonLoads(request.body).value
           ELSE PyStr(request.body)

\* getattr(ann, "is_model", False)
IsModel(ann) == ann = "Model"

\* _want_body_for(param_name, ann), for an annotated parameter
_want_body_for(ann) == IsModel(ann) \/ ann \in {"Set", "List", "Dict"}

\* inspect._empty
NoDefault == [t |-> "empty"]

\* a parameter of the user's function
Param(name, ann, default) == [name |-> name, ann |-> ann, default |-> default]

RequestName == <<"r", "e", "q", "u", "e", "s", "t">>

\* the loop of _build_kwargs with the path and the query swapped
RECURSIVE BuildFromQueryFirst(_, _, _, _)
BuildFromQueryFirst(params, i, kw, request) ==
  IF i > Len(params) THEN [kind |-> "kw", kw |-> kw]
  ELSE
    LET name == params[i].name
        ann == params[i].ann
        next(v) == BuildFromQueryFirst(params, i + 1, DictSet(kw, name, v), request)
    IN
    IF name = RequestName THEN next(PyRequest)
    ELSE IF name \in DOMAIN request.query_params
    THEN next(_parse_query_value(name, ann, request))
    ELSE IF name \in DOMAIN request.path_params
    THEN next(_parse_literal(_parse_json_maybe(PyStr(request.path_params[name]))))
    ELSE IF Lower(name) \in DOMAIN request.headers
    THEN next(_parse_literal(_parse_json_maybe(PyStr(request.headers[Lower(name)]))))
    ELSE IF name \in DOMAIN request.cookies
    THEN next(_parse_literal(_parse_json_maybe(PyStr(request.cookies[name]))))
    ELSE IF _want_body_for(ann)
    THEN IF IsModel(ann)
         THEN IF _read_body(request).t # "dict"
              THEN [kind |-> "TypeError", code |-> 422, name |-> name]
              ELSE next(PyModel(_read_body(request).d))
         ELSE next(_read_body(request))
    ELSE IF params[i].default # NoDefault THEN next(params[i].default)
    ELSE [kind |-> "Error", code |-> 422, name |-> name]

\* the loop of _build_kwargs over the parameters, from the i-th on
RECURSIVE BuildFrom(_, _, _, _)
BuildFrom(params, i, kw, request) ==
  IF i > Len(params) THEN [kind |-> "kw", kw |-> kw]
  ELSE
    LET name == params[i].name
        ann == params[i].ann
        next(v) == BuildFrom(params, i + 1, DictSet(kw, name, v), request)
    IN
    IF name = RequestName THEN next(PyRequest)
    ELSE IF name \in DOMAIN request.path_params
    THEN next(_parse_literal(_parse_json_maybe(PyStr(request.path_params[name]))))
    ELSE IF name \in DOMAIN request.query_params
    THEN next(_parse_query_value(name, ann, request))
    ELSE IF Lower(name) \in DOMAIN request.headers
    THEN next(_parse_literal(_parse_json_maybe(PyStr(request.headers[Lower(name)]))))
    ELSE IF name \in DOMAIN request.cookies
    THEN next(_parse_literal(_parse_json_maybe(PyStr(request.cookies[name]))))
    ELSE IF _want_body_for(ann)
    THEN IF IsModel(ann)
         THEN IF _read_body(request).t # "dict"
              THEN [kind |-> "TypeError", code |-> 422, name |-> name]
              ELSE next(PyModel(_read_body(request).d))
         ELSE next(_read_body(request))
    ELSE IF params[i].default # NoDefault THEN next(params[i].default)
    ELSE [kind |-> "Error", code |-> 422, name |-> name]

\* _build_kwargs(func, request)
_build_kwargs(params, request) == BuildFrom(params, 1, EmptyDict, request)

\* the inputs of the binder
Id == <<"i", "d">>
IdCapital == <<"I", "d">>
Active == <<"a", "c", "t", "i", "v", "e">>
Users == <<"/", "u", "s", "e", "r", "s", "/">>
UsersId == Users \o <<"{", "i", "d", "}">>
UsersActive == Users \o <<"{">> \o Active \o <<"}">>
Users42 == Users \o <<"4", "2">>

BindTemplates == {UsersId, UsersActive}
BindPaths == {Users42, Users \o <<"b">>, Users \o <<"-", "7">>, Users \o <<"T", "r", "u", "e">>}
ActiveTrue == Active \o <<"=">> \o True
BindQueries ==
  { <<>>, ActiveTrue, Id \o <<"=", "7">>, Id \o <<"=", "7", "&">> \o ActiveTrue,
    Id \o <<"=", "1", "&">> \o Id \o <<"=", "2">>, Id \o <<"=", "a", ",", "b">>,
    Active, Id \o <<"=", "[", "1", ",", "2", "]">> }
BindHeaders ==
  { <<>>,
    << <<IdCapital, <<"9">>>> >>,
    << <<Active, False>> >>,
    << <<<<"C", "o", "n", "t", "e", "n", "t", "-", "T", "y", "p", "e">>, ApplicationJson>>,
       <<<<"C", "o", "o", "k", "i", "e">>,
         Id \o <<"=", "c", ";", " ">> \o Active \o <<"=", "1", ".", "5">>>> >> }
BindBodies == { <<>>, <<"[", "1", ",", "2", "]">>, <<"{", "}">>, <<"x">> }
DefaultValue == PyStr(<<"d">>)
BindFuncs ==
  { << Param(Id, "Str", NoDefault), Param(Active, "Bool", NoDefault) >>,
    << Param(Id, "Int", NoDefault) >>,
    << Param(Id, "Int", DefaultValue) >>,
    << Param(Id, "List", NoDefault) >>,
    << Param(Id, "Set", DefaultValue) >>,
    << Param(Id, "Model", NoDefault) >>,
    << Param(Active, "Bool", DefaultValue) >>,
    << Param(IdCapital, "Str", DefaultValue) >>,
    << Param(RequestName, "Request", NoDefault), Param(Id, "Str", NoDefault) >> }

NoKwargs == [kind |-> "none"]

BindInit ==
  /\ b_template \in BindTemplates
  /\ b_scope \in [path : BindPaths, query_string : BindQueries, headers : BindHeaders,
                  body : BindBodies]
  /\ b_func \in BindFuncs
  /\ b_done = FALSE
  /\ b_result = NoKwargs

BindIdle ==
  /\ b_template = UsersId
  /\ b_scope = [path |-> Users42, query_string |-> <<>>, headers |-> <<>>, body |-> <<>>]
  /\ b_func = <<>>
  /\ b_done = FALSE
  /\ b_result = NoKwargs

\* the handler wrapper of _make_handler up to the call of the user's
\* function: the Request of API.__call__ for the matched route, then
\* _build_kwargs
Bind ==
  /\ ~b_done
  /\ _match_path(b_template, b_scope.path).matched
  /\ b_result' = _build_kwargs(b_func,
                   MakeRequest(b_scope, _match_path(b_template, b_scope.path).params))
  /\ b_done' = TRUE
  /\ UNCHANGED <<b_template, b_scope, b_func, notBind>>

(***************************************************************************)
(* The transport (server.py) in front of the application, and the writing   *)
(* of the response (API._send_response). Texts on the wire are strings;     *)
(* they are taken apart as sequences of characters.                         *)
(***************************************************************************)

\* bytes.decode: the characters of a text
Chars(s) == [i \in 1..Len(s) |-> SubSeq(s, i, i)]

\* str.encode, f-strings: the text made of the pieces of q
RECURSIVE Text(_)
Text(q) ==
  IF q = <<>> THEN ""
  ELSE IF Len(q) = 1 THEN q[1]
  ELSE Text(SubSeq(q, 1, Len(q) \div 2)) \o Text(SubSeq(q, Len(q) \div 2 + 1, Len(q)))

CRLF == <<"\r", "\n">>

\* s.find(sub) + 1: the place of the first occurrence of sub in s, 0 for none
Find(s, sub) ==
  LET hits == {i \in 1..(Len(s) - Len(sub) + 1) : SubSeq(s, i, i + Len(sub) - 1) = sub}
  IN  IF hits = {} THEN 0 ELSE CHOOSE i \in hits : \A j \in hits : i <= j

\* s.split(sep, maxsplit), maxsplit -1 for no limit
RECURSIVE SplitText(_, _, _)
SplitText(s, sep, maxsplit) ==
  IF maxsplit = 0 \/ Find(s, sep) = 0 THEN <<s>>
  ELSE <<SubSeq(s, 1, Find(s, sep) - 1)>>
       \o SplitText(SubSeq(s, Find(s, sep) + Len(sep), Len(s)), sep, maxsplit - 1)

\* readuntil that returns what arrived when the stream ends before the separator
readuntilOrEnd(buf, separator) ==
  IF Find(buf, separator) = 0 THEN [ok |-> TRUE, data |-> buf, rest |-> <<>>]
  ELSE [ok |-> TRUE,
        data |-> SubSeq(buf, 1, Find(buf, separator) + Len(separator) - 1),
        rest |-> SubSeq(buf, Find(buf, separator) + Len(separator), Len(buf))]

\* reader.readuntil(separator) on the bytes the client sends: the bytes up
\* to the separator, it included, or IncompleteReadError
readuntil(buf, separator) ==
  IF Find(buf, separator) = 0 THEN [ok |-> FALSE, data |-> <<>>, rest |-> <<>>]
  ELSE [ok |-> TRUE,
        data |-> SubSeq(buf, 1, Find(buf, separator) + Len(separator) - 1),
        rest |-> SubSeq(buf, Find(buf, separator) + Len(separator), Len(buf))]

\* reader.readexactly(n): n bytes, or IncompleteReadError
readexactly(buf, n) ==
  IF Len(buf) < n THEN [ok |-> FALSE, data |-> <<>>, rest |-> <<>>]
  ELSE [ok |-> TRUE, data |-> SubSeq(buf, 1, n), rest |-> SubSeq(buf, n + 1, Len(buf))]

\* urlsplit(target) for an origin-form target: the fragment is cut off, the
\* query is what follows the first "?"
urlsplit(target) ==
  [path |-> Partition(Partition(target, "#").head, "?").head,
   query |-> Partition(Partition(target, "#").head, "?").tail]

\* the header loop of _handle_client from line i on: lines that are empty or
\* have no ":" are skipped, name and value are stripped, the name lower-cased
RECURSIVE HeadersFrom(_, _)
HeadersFrom(lines, i) ==
  IF i > Len(lines) THEN <<>>
  ELSE IF lines[i] = <<>> \/ FirstIn(lines[i], {":"}) = 0 THEN HeadersFrom(lines, i + 1)
  ELSE << << Lower(Strip(Partition(lines[i], ":").head, Whitespace)),
             Strip(Partition(lines[i], ":").tail, Whitespace) >> >>
       \o HeadersFrom(lines, i + 1)

\* headers_dict: the value of the last header of that name
RECURSIVE HeadersDict(_, _, _)
HeadersDict(headers, i, d) ==
  IF i > Len(headers) THEN d
  ELSE HeadersDict(headers, i + 1, DictSet(d, headers[i][1], headers[i][2]))

ContentLength == Chars("content-length")

\* lines[1:-2] if lines[-2:] == ["", ""] else lines[1:]
HeaderLines(lines) ==
  IF Len(lines) >= 2 /\ lines[Len(lines) - 1] = <<>> /\ lines[Len(lines)] = <<>>
  THEN SubSeq(lines, 2, Len(lines) - 2)
  ELSE SubSeq(lines, 2, Len(lines))

NoScope == [method |-> <<>>, path |-> <<>>, query_string |-> <<>>, headers |-> <<>>,
            length |-> 0]

\* what _handle_client makes of the header block: the 400 it answers with,
\* or the parts of the scope and the declared length of the body
Refused(body) == [refused |-> TRUE, body |-> body, scope |-> NoScope]
Accepted(request_line, headers, dict) ==
  [refused |-> FALSE, body |-> "",
   scope |-> [method |-> request_line[1],
              path |-> IF urlsplit(request_line[2]).path = <<>> THEN <<"/">>
                       ELSE urlsplit(request_line[2]).path,
              query_string |-> urlsplit(request_line[2]).query,
              headers |-> headers,
              length |-> IF ContentLength \in DOMAIN dict
                         THEN IntOf(dict[ContentLength]) ELSE 0]]

\* a Content-Length that is no number taken as no Content-Length
ParseHeadersLenient(request_line, headers, dict) ==
  IF ContentLength \in DOMAIN dict /\ ~IsIntText(dict[ContentLength])
  THEN Accepted(request_line, headers, DictPop(dict, ContentLength))
  ELSE Accepted(request_line, headers, dict)

ParseHeaders(request_line, headers, dict) ==
  IF ContentLength \in DOMAIN dict /\ ~IsIntText(dict[ContentLength])
  THEN Refused("Bad Request: invalid Content-Length")
  ELSE Accepted(request_line, headers, dict)

ParseLines(lines) ==
  IF lines = <<>> \/ lines[1] = <<>>
  THEN Refused("Bad Request: empty request line")
  ELSE IF Len(SplitText(lines[1], <<" ">>, 2)) # 3
  THEN Refused("Bad Request: invalid request line")
  ELSE ParseHeaders(SplitText(lines[1], <<" ">>, 2),
                    HeadersFrom(HeaderLines(lines), 1),
                    HeadersDict(HeadersFrom(HeaderLines(lines), 1), 1, EmptyDict))

ParseHead(header_data) == ParseLines(SplitText(header_data, CRLF, -1))

_STATUS_REASONS ==
  (200 :> "OK") @@ (201 :> "Created") @@ (204 :> "No Content")
  @@ (301 :> "Moved Permanently") @@ (302 :> "Found") @@ (400 :> "Bad Request")
  @@ (401 :> "Unauthorized") @@ (403 :> "Forbidden") @@ (404 :> "Not Found")
  @@ (405 :> "Method Not Allowed") @@ (413 :> "Payload Too Large")
  @@ (500 :> "Internal Server Error") @@ (502 :> "Bad Gateway")
  @@ (503 :> "Service Unavailable")

\* str(n) for n >= 0
RECURSIVE IntText(_)
IntText(n) ==
  IF n < 10 THEN DigitString[n + 1]
  ELSE IntText(n \div 10) \o DigitString[(n % 10) + 1]

\* f"HTTP/1.1 {status} {reason}\r\n"
StatusLine(status) ==
  "HTTP/1.1 " \o IntText(status) \o " "
  \o (IF status \in DOMAIN _STATUS_REASONS THEN _STATUS_REASONS[status] ELSE "Unknown")
  \o "\r\n"

\* _send_simple_response: what it writes
_send_simple_response(status, body) ==
  StatusLine(status)
  \o "Content-Length: " \o IntText(Len(body)) \o "\r\n"
  \o "Content-Type: text/plain; charset=utf-8\r\n"
  \o "Connection: close\r\n"
  \o "\r\n"
  \o body

\* the writer with the flags of the send callback; raised is an exception
\* leaving send
Writer(started, ended, wire) ==
  [started |-> started, ended |-> ended, wire |-> wire, raised |-> FALSE]

\* name + b": " + value + b"\r\n" for each header
RECURSIVE HeaderBytes(_)
HeaderBytes(headers) ==
  IF headers = <<>> THEN ""
  ELSE headers[1][1] \o ": " \o headers[1][2] \o "\r\n" \o HeaderBytes(Tail(headers))

\* send, for an http.response.start message, without the test of
\* response_started
SendStartAgain(w, status, headers) ==
  IF w.ended THEN w
  ELSE [w EXCEPT !.wire = @ \o StatusLine(status) \o HeaderBytes(headers) \o "\r\n",
                 !.started = TRUE]

\* send, for an http.response.start message
SendStart(w, status, headers) ==
  IF w.ended THEN w
  ELSE IF w.started THEN [w EXCEPT !.raised = TRUE]
  ELSE [w EXCEPT !.wire = @ \o StatusLine(status) \o HeaderBytes(headers) \o "\r\n",
                 !.started = TRUE]

\* send, for an http.response.body message: a start message with status 200
\* and no headers goes first when none was sent; the body is written, and
\* when it is the last one the writer is drained and closed; drained is
\* whether writer.drain() returns
SendBody(w, body, more_body, drained) ==
  IF w.ended THEN w
  ELSE [started |-> TRUE,
        wire |-> (IF w.started THEN w.wire ELSE SendStart(w, 200, <<>>).wire) \o body,
        ended |-> ~more_body /\ drained,
        raised |-> ~more_body /\ ~drained]

\* a dict as json.dumps sees it: its items in insertion order
PyItems(items) == [t |-> "items", items |-> items]

\* sep.join(parts) on texts
RECURSIVE JoinText(_, _)
JoinText(parts, sep) ==
  IF parts = <<>> THEN ""
  ELSE IF Len(parts) = 1 THEN parts[1]
  ELSE parts[1] \o sep \o JoinText(Tail(parts), sep)

\* json.dumps of a str: quoted, with the quote and the backslash escaped
JsonQuote(s) ==
  "\"" \o Text([i \in DOMAIN s |-> IF s[i] = "\"" THEN "\\\""
                                   ELSE IF s[i] = "\\" THEN "\\\\" ELSE s[i]]) \o "\""

\* json.dumps with its default separators
RECURSIVE JsonDumps(_)
JsonDumps(v) ==
  IF v.t = "none" THEN "null"
  ELSE IF v.t = "bool" THEN (IF v.b THEN "true" ELSE "false")
  ELSE IF v.t = "int" THEN IntText(v.n)
  ELSE IF v.t = "str" THEN JsonQuote(v.s)
  ELSE IF v.t = "list"
  THEN "[" \o JoinText([i \in DOMAIN v.items |-> JsonDumps(v.items[i])], ", ") \o "]"
  ELSE "{" \o JoinText([i \in DOMAIN v.items |->
                          JsonQuote(v.items[i][1]) \o ": " \o JsonDumps(v.items[i][2])],
                       ", ") \o "}"

\* Response(status, code, data, message) with data and message as values
Response(status, code, data, message) ==
  [status |-> status, code |-> code, data |-> data, message |-> message]

\* the envelope e of the dispatch as values: a text or None for the message;
\* for the data a text, None, or, for "detail if detail in Json else None",
\* the text when in_json and None otherwise
ResponseOf(e, in_json) ==
  Response(e.status, e.code,
           IF e.data = NoneValue THEN PyNone
           ELSE IF Len(e.data) = 2 /\ e.data[1] = "if in Json"
           THEN (IF in_json THEN PyStr(e.data[2]) ELSE PyNone)
           ELSE PyStr(e.data),
           IF e.message = NoneValue THEN PyNone ELSE PyStr(e.message))

\* the headers of _send_response with a text/plain content type
PlainHeaders(body_bytes) ==
  << <<"content-type", "text/plain; charset=utf-8">>,
     <<"content-length", IntText(Len(body_bytes))>> >>

\* the headers of _send_response for the encoded body
ResponseHeaders(body_bytes) ==
  << <<"content-type", "application/json; charset=utf-8">>,
     <<"content-length", IntText(Len(body_bytes))>> >>

\* the payload of _send_response
Payload(resp) ==
  PyItems(<< <<Chars("status"), PyStr(Chars(resp.status))>>,
             <<Chars("code"), PyInt(resp.code)>>,
             <<Chars("data"), resp.data>>,
             <<Chars("message"), resp.message>> >>)

\* API._send_response on the writer w: the start message, then the body
_send_response(w, resp, drained) ==
  SendBody(SendStart(w, resp.code, ResponseHeaders(JsonDumps(Payload(resp)))),
           JsonDumps(Payload(resp)), FALSE, drained)

\* the routes registered outside /help
RECURSIVE Endpoints(_, _)
Endpoints(rs, i) ==
  IF i > Len(rs) THEN <<>>
  ELSE IF IsHelpPath(rs[i].path) THEN Endpoints(rs, i + 1)
  ELSE <<rs[i]>> \o Endpoints(rs, i + 1)

\* _help_main
_help_main(rs) ==
  Response("success", 200,
           PyList([i \in DOMAIN Endpoints(rs, 1) |->
                     PyItems(<< <<Chars("method"), PyStr(Endpoints(rs, 1)[i].method)>>,
                                <<Chars("path"), PyStr(Endpoints(rs, 1)[i].path)>>,
                                <<Chars("name"), PyStr(Chars(Endpoints(rs, 1)[i].name))>> >>)]),
           PyStr(Chars("Main helper endpoint. For help with specific endpoints, try '/help/<endpoint>'")))

\* _help_specific, the two searches for the route: by "/help/" + name or by
\* the path without its trailing "/", then by the first segment
FoundFirst(es, path, requested_path) ==
  LET hits == {i \in DOMAIN es :
                 \/ HelpPath \o <<"/">> \o Chars(es[i].name) = path
                 \/ RStrip(es[i].path, {"/"}) = <<"/">> \o RStrip(requested_path, {"/"})}
  IN  IF hits = {} THEN 0 ELSE CHOOSE i \in hits : \A j \in hits : i <= j
FoundSecond(es, requested_path) ==
  LET hits == {i \in DOMAIN es :
                 \/ Split(Strip(es[i].path, {"/"}), "/")[1]
                      = Split(Strip(requested_path, {"/"}), "/")[1]
                 \/ es[i].path = <<"/">> \o requested_path}
  IN  IF hits = {} THEN 0 ELSE CHOOSE i \in hits : \A j \in hits : i <= j
Found(es, path, requested_path) ==
  IF FoundFirst(es, path, requested_path) # 0 THEN FoundFirst(es, path, requested_path)
  ELSE FoundSecond(es, requested_path)

\* what a call leaves: an envelope to send, or an exception
Returned(resp) == [raised |-> FALSE, resp |-> resp]
Raised == [raised |-> TRUE, resp |-> Response("failure", 500, PyNone, PyNone)]

\* _help_specific for a function without parameters, annotations or docstring
HelpInfo(route) ==
  Returned(Response("success", 200,
             PyItems(<< <<Chars("method"), PyStr(route.method)>>,
                        <<Chars("path"), PyStr(route.path)>>,
                        <<Chars("name"), PyStr(Chars(route.name))>>,
                        <<Chars("middlewares"), PyNone>>,
                        <<Chars("parameters"), PyItems(<<>>)>>,
                        <<Chars("returns"), PyStr(Chars("_empty"))>>,
                        <<Chars("description"), PyNone>> >>),
             PyStr(Chars("Detailed help for endpoint '") \o Chars(route.name) \o <<"'">>)))

_help_specific(rs, path) ==
  IF Strip(SubSeq(path, 7, Len(path)), Whitespace) = <<>> THEN Raised
  ELSE IF Found(Endpoints(rs, 1), path, Strip(SubSeq(path, 7, Len(path)), Whitespace)) = 0
  THEN Raised
  ELSE HelpInfo(Endpoints(rs, 1)[Found(Endpoints(rs, 1), path,
                                       Strip(SubSeq(path, 7, Len(path)), Whitespace))])

\* what the binding and the user's function do for the request
UserOutcomes ==
  { [kind |-> "return", code |-> 200], [kind |-> "return", code |-> 201],
    [kind |-> "missing", code |-> 422], [kind |-> "type", code |-> 422],
    [kind |-> "exception", code |-> 500] }

ClientIp == "10.0.0.1"

\* API.__call__ after the pre-handler checks of a route without middleware
Outcome(o) ==
  IF o.kind = "return" THEN AfterReturn(MapsNow, NoMids, ClientIp, o.code, now)
  ELSE IF o.kind = "missing"
  THEN AfterError(MapsNow, NoMids, ClientIp,
                  Error(422, <<"missing required parameter">>, {}), now)
  ELSE IF o.kind = "type" THEN AfterTypeError(MapsNow, NoMids, ClientIp, now)
  ELSE AfterException(MapsNow, NoMids, ClientIp, now)
UserRoute(o, in_json) ==
  IF Outcome(o).raised THEN Raised ELSE Returned(ResponseOf(Outcome(o).resp, in_json))

\* API.__call__ for a request resolved to res, up to the envelope it sends;
\* an Error raised by an introspection handler leaves __call__
Resolved(rs, scope, res, o, in_json) ==
  IF res.kind = "notfound" THEN Returned(ResponseOf(res.resp, in_json))
  ELSE IF rs[res.idx].path = HelpPath THEN Returned(_help_main(rs))
  ELSE IF IsHelpPath(rs[res.idx].path) THEN _help_specific(rs, scope.path)
  ELSE UserRoute(o, in_json)

AppCall(rs, scope, o, in_json) ==
  Resolved(rs, scope, ResolveRoute(rs, scope.method, scope.path), o, in_json)

\* the application behind the server: one route without middleware
ItemsPath == Chars("/items")
AppUsers == HelpEntries \o << RegisteredEntry(get, ItemsPath, "items", NoMids) >>

\* what clients send
StreamMethods == {"GET", "post"}
StreamTargets ==
  {"/items", "/items?x=1", "/help", "/help/", "/help/items", "/help/zzz", "/nope"}
StreamHeaders ==
  { [lines |-> "", body |-> ""],
    [lines |-> "Host: a\r\nnocolon\r\n", body |-> ""],
    [lines |-> "Content-Length: 2\r\n", body |-> "{}"],
    [lines |-> "content-length: two\r\n", body |-> ""],
    [lines |-> "Content-Length: 5\r\n", body |-> "{}"],
    [lines |-> "Content-Length: 0\r\nContent-Length: -1\r\n", body |-> ""] }
\* two requests sent one after the other on one connection
Pipelined == "GET /help HTTP/1.1\r\n\r\nGET /nope HTTP/1.1\r\n\r\n"
Streams ==
  { m \o " " \o t \o " HTTP/1.1\r\n" \o h.lines \o "\r\n" \o h.body :
      m \in StreamMethods, t \in StreamTargets, h \in StreamHeaders }
  \cup { "", "GET /items HTTP/1.1\r\n", "\r\n\r\n", "GET\r\n\r\n", "GET /items\r\n\r\n" }
  \cup { Pipelined }

\* the messages of the send callback: message.get("type"), message["status"],
\* message.get("headers", []), message.get("body", b""),
\* bool(message.get("more_body", False)); result is what send did
NoMessage ==
  [type |-> "none", status |-> 0, headers |-> <<>>, body |-> "", more_body |-> FALSE,
   result |-> "none"]
StartMessage(status, headers) ==
  [NoMessage EXCEPT !.type = "http.response.start", !.status = status,
                    !.headers = headers]
BodyMessage(body, more_body) ==
  [NoMessage EXCEPT !.type = "http.response.body", !.body = body,
                    !.more_body = more_body]

\* send(message) without the test of response_started before the write of
\* a body
sendBare(w, message, drained) ==
  IF w.ended THEN w
  ELSE IF message.type = "http.response.start"
  THEN SendStart(w, message.status, message.headers)
  ELSE IF message.type = "http.response.body"
  THEN [SendBody(w, message.body, message.more_body, drained)
          EXCEPT !.wire = w.wire \o message.body]
  ELSE w

\* send(message): nothing once response_ended; a message of another type
\* goes through both tests and leaves the writer as it was
send(w, message, drained) ==
  IF w.ended THEN w
  ELSE IF message.type = "http.response.start"
  THEN SendStart(w, message.status, message.headers)
  ELSE IF message.type = "http.response.body"
  THEN SendBody(w, message.body, message.more_body, drained)
  ELSE w

TransportInit ==
  /\ t_stream \in Streams
  /\ t_pc = "accepted"
  /\ t_scope = NoScope
  /\ t_started = FALSE
  /\ t_ended = FALSE
  /\ t_wire = ""
  /\ t_via = "none"
  /\ t_app = "none"
  /\ t_msg = NoMessage

TransportIdle ==
  /\ t_stream = ""
  /\ t_pc = "closed"
  /\ t_scope = NoScope
  /\ t_started = FALSE
  /\ t_ended = FALSE
  /\ t_wire = ""
  /\ t_via = "none"
  /\ t_app = "none"
  /\ t_msg = NoMessage

\* the connection is closed with nothing written
Closed ==
  /\ t_pc' = "closed"
  /\ UNCHANGED <<t_scope, t_started, t_ended, t_wire, t_via>>

\* _send_simple_response, then the connection is closed
Simple(status, body) ==
  /\ t_pc' = "closed"
  /\ t_wire' = t_wire \o _send_simple_response(status, body)
  /\ t_via' = "_send_simple_response"
  /\ UNCHANGED <<t_scope, t_started, t_ended>>

\* _handle_client after the header block was read
HandleHead(head, p) ==
  IF p.refused THEN Simple(400, p.body)
  ELSE IF p.scope.length > 0 /\ ~readexactly(head.rest, p.scope.length).ok THEN Closed
  ELSE /\ t_pc' = "app"
       /\ t_scope' = p.scope
       /\ UNCHANGED <<t_started, t_ended, t_wire, t_via>>

\* _handle_client from the accepted connection to the call of the
\* application: the header block is read and parsed, the body is read
HandleClient ==
  /\ t_pc = "accepted"
  /\ \E head \in {readuntil(Chars(t_stream), CRLF \o CRLF)} :
       IF ~head.ok THEN Closed
       ELSE \E p \in {ParseHead(head.data)} : HandleHead(head, p)
  /\ UNCHANGED <<t_stream, t_app, t_msg, notTransport>>

\* the connection kept for another request after the envelope was sent
SentKeepAlive(w) ==
  /\ t_pc' = "accepted"
  /\ t_started' = FALSE
  /\ t_ended' = FALSE
  /\ t_wire' = w.wire
  /\ t_via' = "_send_response"
  /\ UNCHANGED t_scope

\* the writer after API.__call__ sent its envelope through send
Sent(w) ==
  /\ t_pc' = "closed"
  /\ t_started' = w.started
  /\ t_ended' = w.ended
  /\ t_wire' = w.wire
  /\ t_via' = "_send_response"
  /\ UNCHANGED t_scope

\* what _handle_client does when an exception leaves the application, with
\* the 500 written whatever was sent before
OnExceptionAlways500(response_started, is_closing) ==
  IF is_closing THEN "nothing" ELSE "500"

\* what _handle_client does when an exception leaves the application:
\* nothing when the writer is closing, the 500 of _send_simple_response when
\* no response was started, else the writer is closed
OnException(response_started, is_closing) ==
  IF is_closing THEN "nothing"
  ELSE IF ~response_started THEN "500"
  ELSE "close"

\* _handle_client after an exception left the application, which had
\* brought the writer to w
Failed(w, is_closing) ==
  /\ t_pc' = "closed"
  /\ t_started' = w.started
  /\ t_ended' = w.ended
  /\ t_app' = IF is_closing THEN "raised, closing" ELSE "raised"
  /\ IF OnException(w.started, is_closing) = "500"
     THEN /\ t_wire' = w.wire \o _send_simple_response(500, "Internal Server Error")
          /\ t_via' = "_send_simple_response"
     ELSE /\ t_wire' = w.wire
          /\ t_via' = IF w.started THEN "_send_response" ELSE "none"
  /\ UNCHANGED t_scope

\* _handle_client around the call of the application: API.__call__ answers
\* through send; an exception leaves it before anything was sent (r.raised)
\* or when writer.drain() fails after the body was written (w.raised);
\* is_closing is whether the connection was lost by then
CallApp(o, in_json, drained, is_closing) ==
  /\ t_pc = "app"
  /\ \E r \in {AppCall(routes, t_scope, o, in_json)} :
       IF r.raised THEN Failed(Writer(t_started, t_ended, t_wire), is_closing)
       ELSE \E w \in {_send_response(Writer(t_started, t_ended, t_wire), r.resp, drained)} :
              IF w.raised THEN Failed(w, is_closing)
              ELSE Sent(w) /\ t_app' = "returned"
  /\ UNCHANGED <<t_stream, t_msg, notTransport>>

\* what applications hand to send
SendStatuses == {200, 404}
SendHeaders == { <<>>, << <<"a", "b">> >> }
SendBodies == {"", "xy"}
SendMessages ==
  { StartMessage(status, headers) : status \in SendStatuses, headers \in SendHeaders }
  \cup { BodyMessage(body, more_body) : body \in SendBodies, more_body \in BOOLEAN }
  \cup { [NoMessage EXCEPT !.type = "http.response.trailers"] }

\* the bytes written to one connection before the application stops sending
MaxWire == 24

\* writer.is_closing() when an exception leaves the application: true once
\* send closed the writer, else whether the connection was lost
IsClosing == IF t_ended THEN {TRUE} ELSE BOOLEAN

\* an application awaits send(message); an exception raised by send leaves
\* the application unless it catches it (caught)
AppSends(message, drained, caught, is_closing) ==
  /\ t_pc = "app"
  /\ Len(Chars(t_wire)) <= MaxWire
  /\ \E w \in {send(Writer(t_started, t_ended, t_wire), message, drained)} :
       /\ t_msg' = [message EXCEPT !.result = IF t_ended THEN "ignored"
                                              ELSE IF w.raised THEN "raised"
                                              ELSE "returned"]
       /\ IF w.raised /\ ~caught THEN Failed(w, is_closing)
          ELSE /\ t_started' = w.started
               /\ t_ended' = w.ended
               /\ t_wire' = w.wire
               /\ t_via' = IF w.wire = t_wire THEN t_via ELSE "send"
               /\ UNCHANGED <<t_pc, t_scope, t_app>>
  /\ UNCHANGED <<t_stream, notTransport>>

\* the call of the application ends: it returns, or an exception leaves it
AppEnds(raises, is_closing) ==
  /\ t_pc = "app"
  /\ IF raises THEN Failed(Writer(t_started, t_ended, t_wire), is_closing)
     ELSE /\ t_pc' = IF t_ended THEN "closed" ELSE "returned"
          /\ t_app' = "returned"
          /\ UNCHANGED <<t_scope, t_started, t_ended, t_wire, t_via>>
  /\ UNCHANGED <<t_stream, t_msg, notTransport>>

\* the subsets of Block, Token, Limit, and for each of them an application
\* with a route that carries Block and Limit and a route that carries the subset;
\* the functions of the routes answer 200 or 401
MidSets ==
  { NoMids, <<BlockT>>, <<TokenA>>, <<LimitA>>, <<BlockT, TokenA>>, <<BlockT, LimitA>>,
    <<TokenA, LimitA>>, <<BlockT, TokenA, LimitA>> }
AppSubset(mids) ==
  HelpEntries \o
  << RegisteredEntry(get, Chars("/both"), "any", <<BlockT, LimitA>>),
     RegisteredEntry(get, Chars("/some"), "any", mids) >>

\* an application whose route asks for the token only
AppToken ==
  HelpEntries \o
  << RegisteredEntry(get, SecPath, "token", <<TokenA>>) >>

\* what clients put in the Authorization header, in the X-Api-Token header
\* and in the token query parameter
AuthorizationValues ==
  { "", "Bearer s", "bearer s", "BEARER S", "Token s", "tOkEn s", "Bearer  s ",
    " Bearer s", "Bearer ss", "Bearer x", "Bearer", "Bearer ", "Basic s", "s",
    "Bearers s", "Bearer s s" }
CredentialValues == { "", "s", "S" }
TokenRequests ==
  { [ip |-> "10.0.0.1", method |-> GET, path |-> SecPath,
     authorization |-> Chars(a), x_api_token |-> Chars(x), query_token |-> Chars(q)] :
      a \in AuthorizationValues, x \in CredentialValues, q \in CredentialValues }

(***************************************************************************)
(* The normalizer API._to_response_model                                   *)
(***************************************************************************)

\* a value that is no str and that json.dumps cannot serialize
PyBytes(s) == [t |-> "bytes", s |-> s]
\* an instance of Response
PyResponse(r) == [t |-> "response", r |-> r]

\* json.dumps(result) returns: None, bool, int, float and str, and the
\* lists, tuples and dicts made of such values; it raises TypeError otherwise
RECURSIVE Dumpable(_)
Dumpable(v) ==
  IF v.t \in {"none", "bool", "int", "float", "str"} THEN TRUE
  ELSE IF v.t \in {"list", "tuple"} THEN \A i \in DOMAIN v.items : Dumpable(v.items[i])
  ELSE IF v.t = "dict" THEN \A k \in DOMAIN v.d : Dumpable(v.d[k])
  ELSE FALSE

\* _to_response_model(result): an envelope is passed through; the __json__
\* of a value that has one, or else the value itself when json.dumps
\* accepts it, becomes the data of a 200 envelope; when json.dumps raises
\* TypeError a str becomes the message, and for any other value the
\* function ends without a return statement and so returns None
_to_response_model(result) ==
  IF result.t = "response" THEN result.r
  ELSE IF result.t = "model" THEN Response("success", 200, PyDict(result.d), PyNone)
  ELSE IF Dumpable(result) THEN Response("success", 200, result, PyNone)
  ELSE IF result.t = "str" THEN Response("success", 200, PyNone, result)
  ELSE PyNone

\* the texts handlers return
ReturnTexts ==
  UNION { [1..n -> {"a", "1", "{"}] : n \in 0..3 }

\* the values handlers return
ReturnValues ==
  { PyStr(x) : x \in ReturnTexts }
  \cup { PyInt(n) : n \in 0..2 } \cup { PyBool(TRUE), PyBool(FALSE), PyNone }
  \cup { PyList(<<>>), PyList(<<PyStr(<<"a">>)>>), PyList(<<PyBytes(<<"a">>)>>),
         PyTuple(<<PyInt(1), PyNone>>), PySet(<<PyInt(1)>>), PyBytes(<<>>), PyBytes(<<"a">>),
         PyDict(DictSet(EmptyDict, <<"k">>, PyStr(<<"a">>))),
         PyDict(DictSet(EmptyDict, <<"k">>, PySet(<<>>))),
         PyModel(DictSet(EmptyDict, <<"k">>, PyInt(1))) }
  \cup { PyResponse(Response(st, code, data, message)) :
           st \in {"success", "failure"}, code \in {200, 201, 404},
           data \in {PyNone, PyStr(<<"a">>)}, message \in {PyNone, PyStr(<<"a">>)} }

NormalizeInit ==
  /\ n_result \in ReturnValues
  /\ n_done = FALSE
  /\ n_resp = PyNone

NormalizeIdle ==
  /\ n_result = PyNone
  /\ n_done = FALSE
  /\ n_resp = PyNone

\* resp_model = self._to_response_model(result)
Normalize ==
  /\ ~n_done
  /\ n_resp' = _to_response_model(n_result)
  /\ n_done' = TRUE
  /\ UNCHANGED <<n_result, notNormalize>>

(***************************************************************************)
(* Specifications                                                          *)
(***************************************************************************)

InitMatch == MatchInit /\ RouteInit /\ DispatchIdle /\ BindIdle /\ TransportIdle /\ NormalizeIdle
NextMatch == MatchPath
SpecMatch == InitMatch /\ [][NextMatch]_vars

InitRoute == MatchIdle /\ RouteInit /\ DispatchIdle /\ BindIdle /\ TransportIdle /\ NormalizeIdle
NextRoute ==
  \/ \E m \in RegMethods, p \in RegPaths : Register(m, p)
  \/ \E m \in ReqMethods, p \in ReqPaths : Resolve(m, p)
SpecRoute == InitRoute /\ [][NextRoute]_vars


\* the application is constructed and its routes registered; then requests
\* arrive on the connections and time passes
Init ==
  /\ MatchIdle
  /\ routes \in Apps
  /\ r_done = FALSE /\ r_req = NoRequest /\ r_res = NoResult
  /\ DispatchInit
  /\ BindIdle
  /\ TransportIdle
  /\ NormalizeIdle
Next ==
  \/ \E c \in Conns, req \in Requests(routes), bind \in BindOutcomes : Start(c, req, bind)
  \/ \E c \in Conns, o \in HandlerOutcomes : Finish(c, o)
  \/ Tick
Spec == Init /\ [][Next]_vars

\* requests with every combination of credentials arrive at a route that
\* asks for the token
InitToken ==
  /\ MatchIdle
  /\ routes = AppToken
  /\ r_done = FALSE /\ r_req = NoRequest /\ r_res = NoResult
  /\ DispatchInit
  /\ BindIdle
  /\ TransportIdle
  /\ NormalizeIdle
NextToken ==
  \/ \E c \in Conns, req \in TokenRequests : Start(c, req, "ok")
  \/ \E c \in Conns : Finish(c, [kind |-> "return", code |-> 200])
SpecToken == InitToken /\ [][NextToken]_vars

\* requests arrive at the routes of every subset of Block, Token, Limit
InitSubsets ==
  /\ MatchIdle
  /\ routes \in {AppSubset(mids) : mids \in MidSets}
  /\ r_done = FALSE /\ r_req = NoRequest /\ r_res = NoResult
  /\ DispatchInit
  /\ BindIdle
  /\ TransportIdle
  /\ NormalizeIdle
SpecSubsets == InitSubsets /\ [][Next]_vars

\* one request bound to the parameters of one function
InitBind == MatchIdle /\ RouteInit /\ DispatchIdle /\ BindInit /\ TransportIdle /\ NormalizeIdle
NextBind == Bind
SpecBind == InitBind /\ [][NextBind]_vars

\* one connection accepted by the server in front of the application
InitTransport ==
  /\ MatchIdle
  /\ routes = AppUsers
  /\ r_done = FALSE /\ r_req = NoRequest /\ r_res = NoResult
  /\ DispatchIdle
  /\ BindIdle
  /\ TransportInit
  /\ NormalizeIdle
NextTransport ==
  \/ HandleClient
  \/ \E o \in UserOutcomes, in_json \in BOOLEAN, drained \in BOOLEAN,
        is_closing \in BOOLEAN :
       CallApp(o, in_json, drained, is_closing)
SpecTransport == InitTransport /\ [][NextTransport]_vars

\* one connection, and an application that hands any messages to send
SendStreams == { "GET /items HTTP/1.1\r\n\r\n", "GET\r\n\r\n", "GET /items HTTP/1.1\r\n" }
InitSend ==
  /\ MatchIdle
  /\ routes = AppUsers
  /\ r_done = FALSE /\ r_req = NoRequest /\ r_res = NoResult
  /\ DispatchIdle
  /\ BindIdle
  /\ t_stream \in SendStreams
  /\ t_pc = "accepted"
  /\ t_scope = NoScope
  /\ t_started = FALSE
  /\ t_ended = FALSE
  /\ t_wire = ""
  /\ t_via = "none"
  /\ t_app = "none"
  /\ t_msg = NoMessage
  /\ NormalizeIdle
NextSend ==
  \/ HandleClient
  \/ \E message \in SendMessages, drained \in BOOLEAN, caught \in BOOLEAN,
        is_closing \in IsClosing :
       AppSends(message, drained, caught, is_closing)
  \/ \E raises \in BOOLEAN, is_closing \in IsClosing : AppEnds(raises, is_closing)
SpecSend == InitSend /\ [][NextSend]_vars

\* one value returned by a handler is normalized
InitNormalize ==
  /\ MatchIdle
  /\ routes = AppUsers
  /\ r_done = FALSE /\ r_req = NoRequest /\ r_res = NoResult
  /\ DispatchIdle
  /\ BindIdle
  /\ TransportIdle
  /\ NormalizeInit
NextNormalize == Normalize
SpecNormalize == InitNormalize /\ [][NextNormalize]_vars

\* the event loop resumes _handle_client wherever it is suspended: at the
\* read of the request and at the call of the application, the two places
\* where NextTransport has a step to take
Resume == t_pc # "closed" /\ t_pc' \in {"app", "closed"} \ {t_pc}

\* the same behaviours, with the event loop running the coroutine as long
\* as it can run
SpecTransportLive == SpecTransport /\ WF_t_pc(Resume)

\* two connections are open at once: asyncio.start_server runs one
\* _handle_client task per connection on the one event loop, and a request
\* suspended in its handler leaves the loop to the other connection
Conns2 == {"c1", "c2"}
InitConcurrent ==
  /\ MatchIdle
  /\ routes \in {AppBlock, AppLimit}
  /\ r_done = FALSE /\ r_req = NoRequest /\ r_res = NoResult
  /\ now = 0
  /\ blocked_ips = EmptyDict
  /\ auth_failures = EmptyDict
  /\ rate_limits = EmptyDict
  /\ conn = [c \in Conns2 |-> IdleConn]
  /\ last = NoLast
  /\ g_fail = [ip \in IPs |-> <<>>]
  /\ g_hit = [ip \in IPs |-> FALSE]
  /\ g_resp = [ip \in IPs |-> <<>>]
  /\ g_three = [ip \in IPs |-> FALSE]
  /\ g_win = [ip \in IPs |-> NoWindow]
  /\ BindIdle
  /\ TransportIdle
  /\ NormalizeIdle
NextConcurrent ==
  \/ \E c \in Conns2, req \in Requests(routes), bind \in BindOutcomes : Start(c, req, bind)
  \/ \E c \in Conns2, o \in HandlerOutcomes : Finish(c, o)
  \/ Tick
SpecConcurrent == InitConcurrent /\ [][NextConcurrent]_vars

\* requests of every method to /help, under /help/ and elsewhere, sent to
\* an API that has a middleware set
HelpMethods == {GET, post, <<"D", "E", "L", "E", "T", "E">>}
HelpPaths == {HelpPath, HelpXPath, HelpPath \o <<"/">>, HelpPath \o <<"x">>, OpenPath}
HelpRequests == { Request("10.0.0.1", m, p, <<>>) : m \in HelpMethods, p \in HelpPaths }
InitHelp ==
  /\ MatchIdle
  /\ routes = AppHelp
  /\ r_done = FALSE /\ r_req = NoRequest /\ r_res = NoResult
  /\ DispatchInit
  /\ BindIdle
  /\ TransportIdle
  /\ NormalizeIdle
NextHelp ==
  \/ \E c \in Conns, req \in HelpRequests : Start(c, req, "ok")
  \/ \E c \in Conns, o \in HandlerOutcomes : Finish(c, o)
  \/ Tick
SpecHelp == InitHelp /\ [][NextHelp]_vars

\* two connections open at once on an application whose routes share the
\* maps: one Limit on two routes, or two different Blocks
InitShared ==
  /\ MatchIdle
  /\ routes \in {AppShared, AppBlocks}
  /\ r_done = FALSE /\ r_req = NoRequest /\ r_res = NoResult
  /\ now = 0
  /\ blocked_ips = EmptyDict
  /\ auth_failures = EmptyDict
  /\ rate_limits = EmptyDict
  /\ conn = [c \in Conns2 |-> IdleConn]
  /\ last = NoLast
  /\ g_fail = [ip \in IPs |-> <<>>]
  /\ g_hit = [ip \in IPs |-> FALSE]
  /\ g_resp = [ip \in IPs |-> <<>>]
  /\ g_three = [ip \in IPs |-> FALSE]
  /\ g_win = [ip \in IPs |-> NoWindow]
  /\ BindIdle
  /\ TransportIdle
  /\ NormalizeIdle
NextShared ==
  \/ \E c \in Conns2, req \in Requests(routes) : Start(c, req, "ok")
  \/ \E c \in Conns2, o \in HandlerOutcomes : Finish(c, o)
  \/ Tick
SpecShared == InitShared /\ [][NextShared]_vars

(***************************************************************************)
(* Properties of the router                                                *)
(***************************************************************************)

\* the segments of a path as the specification describes them: the maximal
\* runs of characters other than "/", or one empty segment when there are none
RECURSIVE Runs(_, _)
Runs(s, cur) ==
  IF s = <<>> THEN (IF cur = <<>> THEN <<>> ELSE <<cur>>)
  ELSE IF Head(s) = "/"
       THEN (IF cur = <<>> THEN <<>> ELSE <<cur>>) \o Runs(Tail(s), <<>>)
       ELSE Runs(Tail(s), Append(cur, Head(s)))

Segments(s) == LET r == Runs(s, <<>>) IN IF r = <<>> THEN << <<>> >> ELSE r

MinOf(S) == CHOOSE i \in S : \A j \in S : i <= j
MaxOf(S) == CHOOSE i \in S : \A j \in S : i >= j

\* same segment count, and every literal segment of T equals P's at its position
LiteralsAgree(T, P) ==
  /\ Len(T) = Len(P)
  /\ \A i \in DOMAIN T : ~IsCapture(T[i]) => T[i] = P[i]

CapturePositions(T) == {i \in DOMAIN T : IsCapture(T[i])}

\* C6, as claimed: when the segment counts agree and the literals agree, the
\* result maps each {name} segment to the path segment at its position, and
\* otherwise the result is no-match
C6_AsClaimed ==
  m_done =>
    LET T == Segments(m_template)
        P == Segments(m_path)
    IN  IF LiteralsAgree(T, P)
        THEN /\ m_result.matched
             /\ DOMAIN m_result.params = {CaptureName(T[i]) : i \in CapturePositions(T)}
             /\ \A i \in CapturePositions(T) : m_result.params[CaptureName(T[i])] = P[i]
        ELSE m_result = NoMatch

\* C6, amended: when the segment counts agree and the literals agree, the
\* result maps each capture name to the path segment at the last position
\* where that name occurs in the template (the segment at its position when
\* the name occurs once), and otherwise the result is no-match
C6_MatchReturnsCaptures ==
  m_done =>
    LET T == Segments(m_template)
        P == Segments(m_path)
    IN  IF LiteralsAgree(T, P)
        THEN /\ m_result.matched
             /\ DOMAIN m_result.params = {CaptureName(T[i]) : i \in CapturePositions(T)}
             /\ \A n \in DOMAIN m_result.params :
                  m_result.params[n] =
                    P[MaxOf({i \in CapturePositions(T) : CaptureName(T[i]) = n})]
        ELSE m_result = NoMatch

\* C6, witness: a template with one name in two capture segments matched
\* against a path whose two segments differ
C6_Witness ==
  /\ m_done
  /\ m_result.matched
  /\ LET T == Segments(m_template)
         P == Segments(m_path)
     IN  /\ Len(T) = 2
         /\ IsCapture(T[1]) /\ T[1] = T[2]
         /\ P[1] # P[2]
         /\ m_result.params[CaptureName(T[1])] = P[2]

\* the entries of the table with the request's method (compared without
\* regard to case) whose template matches the request's path
Candidates(S) ==
  {i \in S : /\ Upper(routes[i].method) = Upper(r_req.method)
             /\ LiteralsAgree(Segments(routes[i].path), Segments(r_req.path))}

UserEntries == {i \in DOMAIN routes : ~IsHelpPath(routes[i].path)}

\* C5, as claimed: for any table and request the entry returned is the one
\* of lowest registration index among the entries with the method and a
\* matching template
C5_AsClaimed ==
  r_done =>
    LET c == Candidates(DOMAIN routes) IN
    /\ c # {} => r_res.kind = "route" /\ r_res.idx = MinOf(c)
    /\ r_res.kind = "route" => r_res.idx \in c

\* C5, amended: for a request whose path is not /help and not under /help/,
\* the entry returned is the one of lowest registration index among the
\* entries not registered at /help or under /help/ that have the method
\* (without regard to case) and a matching template, with that template's
\* captures; a request to /help or under /help/ gets an introspection entry
C5_FirstMatchWins ==
  r_done =>
    IF IsHelpPath(r_req.path)
    THEN r_res.kind = "route" /\ r_res.idx \in {1, 2}
    ELSE LET c == Candidates(UserEntries) IN
         IF c = {} THEN r_res.kind = "notfound"
         ELSE /\ r_res.kind = "route"
              /\ r_res.idx = MinOf(c)
              /\ r_res.params = _match_path(routes[MinOf(c)].path, r_req.path).params

\* C5, witness: /a/{x} registered before /a/b, and GET /a/b selects /a/{x}
\* with x bound to "b"
C5_Witness ==
  /\ r_done
  /\ Len(routes) = 4
  /\ routes[3].path = <<"/", "a", "/", "{", "x", "}">>
  /\ routes[4].path = <<"/", "a", "/", "b">>
  /\ routes[3].method = GET /\ routes[4].method = GET
  /\ r_req = [method |-> get, path |-> <<"/", "a", "/", "b">>]
  /\ r_res.kind = "route" /\ r_res.idx = 3
  /\ r_res.params = DictSet(EmptyDict, <<"x">>, <<"b">>)

\* the one "no route" failure for a method and a path
IsNoRoute404(res, method, path) ==
  /\ res.kind = "notfound"
  /\ res.resp.status = "failure"
  /\ res.resp.code = 404
  /\ res.resp.message = <<"No route for ">> \o Upper(method) \o <<" ">> \o path

\* C7, as claimed: whenever no registered entry has both the request's method
\* and a template matching its path, the response is the 404 "no route" failure
C7_AsClaimed ==
  r_done /\ Candidates(DOMAIN routes) = {} => IsNoRoute404(r_res, r_req.method, r_req.path)

\* C7, amended: for a request whose path is not /help and not under /help/,
\* whenever no entry registered outside /help has both the request's method
\* and a template matching its path, the response is the one 404 "no route"
\* failure, the same whether the path is unknown or registered under another
\* method only
C7_NoRouteIs404 ==
  r_done /\ ~IsHelpPath(r_req.path) /\ Candidates(UserEntries) = {}
    => IsNoRoute404(r_res, r_req.method, r_req.path)

\* C7, witness: a path registered under GET only, requested with POST,
\* answered by the 404 "no route" failure
C7_Witness ==
  /\ r_done
  /\ r_req.method = POST
  /\ \E i \in UserEntries :
       /\ routes[i].method = GET
       /\ LiteralsAgree(Segments(routes[i].path), Segments(r_req.path))
  /\ IsNoRoute404(r_res, r_req.method, r_req.path)

(***************************************************************************)
(* Properties of the middleware checks                                     *)
(***************************************************************************)

Range(q) == {q[i] : i \in DOMAIN q}

\* the last request was resolved to an entry of the route table
Routed == last.at \in {"help", "rejected", "bind", "finished"}

\* the connections whose request is suspended in the user's function
InHandler == {c \in Conns : conn[c].pc = "handler"}

MidsOf(idx) == routes[idx].mids
BlockOf(idx) == MidsOf(idx)[FirstOfType(MidsOf(idx), {"Block"})]
LimitOf(idx) == MidsOf(idx)[FirstOfType(MidsOf(idx), {"Limit"})]
TokenOf(idx) == MidsOf(idx)[FirstOfType(MidsOf(idx), {"Token"})]

\* the request was rejected by the block check, which raised its 403,
\* before anything else ran
RejectedAtBlock(l) ==
  /\ l.at = "rejected"
  /\ l.steps = <<"route", "block">> \o ExceptSteps
  /\ l.err.code = 403

\* the request was answered with a failure envelope of that code
Answered(l, code) == ~l.raised /\ l.resp.status = "failure" /\ l.resp.code = code

EscalationConfig ==
  \A i \in DOMAIN routes : HasType(MidsOf(i), "Block") => BlockOf(i) = BlockA

C3_RateWindow ==
  /\ (Routed /\ last.pre.rl_k >= 1 /\ last.pre.rl_k <= LimitOf(last.idx).limit) =>
       /\ "bind" \in Range(last.steps)
       /\ last.err.code # 429
  /\ (Routed /\ last.pre.rl_k >= 1 /\ last.pre.rl_k = LimitOf(last.idx).limit + 1) =>
       /\ last.at = "rejected"
       /\ last.err.code = 429
       /\ last.err.detail = LimitOf(last.idx).message
       /\ Range(last.steps) \cap {"bind", "handler"} = {}
  /\ \A c \in InHandler :
       conn[c].pre.rl_k >= 1 => conn[c].pre.rl_k <= LimitOf(conn[c].idx).limit

C3_Witness ==
  /\ Routed /\ last.pre.rl_k >= 1
  /\ last.pre.rl_k = LimitOf(last.idx).limit + 1
  /\ last.err.code = 429
  /\ now = 60

\* the route carries a Block, a Token and a Limit
AllThree(idx) ==
  /\ HasType(MidsOf(idx), "Block")
  /\ HasType(MidsOf(idx), "Token")
  /\ HasType(MidsOf(idx), "Limit")

Blocked(pre) == pre.block \in {"future", "permanent"}
TokenFails(req, idx) == TokenGot(req) # TokenOf(idx).token

\* the checks made before the handler, in the order they were made
ChecksOf(steps) == SelectSeq(steps, LAMBDA x : x \in {"block", "token", "limit"})

\* the checks run in the order block, token, rate limit and stop at the
\* first rejection; a blocked IP is answered 403, a request that fails the
\* token check is answered 401
OrderedChecks(l) ==
  /\ ChecksOf(l.steps) \in { <<"block">>, <<"block", "token">>,
                             <<"block", "token", "limit">> }
  /\ Blocked(l.pre) =>
       /\ Answered(l, 403)
       /\ ChecksOf(l.steps) = <<"block">>
       /\ ~l.stamped
  /\ (~Blocked(l.pre) /\ TokenFails(l.req, l.idx)) =>
       /\ Answered(l, 401)
       /\ ChecksOf(l.steps) = <<"block", "token">>
       /\ ~l.stamped
  /\ (Blocked(l.pre) \/ TokenFails(l.req, l.idx)) =>
       Range(l.steps) \cap {"bind", "handler"} = {}

\* C4 as stated: on a route carrying Block, Token and Limit the checks run
\* in the order block, token, rate limit and stop at the first rejection; a
\* blocked IP gets 403 with no token examined and no timestamp recorded, a
\* request failing the token check gets 401 with no timestamp recorded.
C4_AsClaimed ==
  (Routed /\ last.at # "help" /\ AllThree(last.idx)) => OrderedChecks(last)

(***************************************************************************)
(* Properties of the binder                                                *)
(***************************************************************************)

\* the Request the binder works on
BindRequest == MakeRequest(b_scope, _match_path(b_template, b_scope.path).params)

SourceOrder == <<"request", "path", "query", "headers", "cookies", "body", "default">>

\* the source holds something for the parameter p
Holds(src, p) ==
  CASE src = "request" -> p.name = RequestName
    [] src = "path" ->
         \E i \in DOMAIN Segments(b_template) :
           Segments(b_template)[i] = <<"{">> \o p.name \o <<"}">>
    [] src = "query" -> p.name \in DOMAIN ParseQs(b_scope.query_string)
    [] src = "headers" ->
         \E i \in DOMAIN b_scope.headers : Lower(b_scope.headers[i][1]) = Lower(p.name)
    [] src = "cookies" -> p.name \in DOMAIN BindRequest.cookies
    [] src = "body" -> p.ann \in {"Model", "Set", "List", "Dict"}
    [] src = "default" -> p.default # NoDefault

\* the place in SourceOrder of the first source that holds something for p,
\* 0 when none does
FirstSource(p) == MinOf({i \in DOMAIN SourceOrder : Holds(SourceOrder[i], p)} \cup {8}) % 8

\* the value the source gives for the parameter p
ValueFrom(src, p) ==
  CASE src = "request" -> PyRequest
    [] src = "path" -> _parse_literal(_parse_json_maybe(PyStr(BindRequest.path_params[p.name])))
    [] src = "query" -> _parse_query_value(p.name, p.ann, BindRequest)
    [] src = "headers" ->
         _parse_literal(_parse_json_maybe(PyStr(BindRequest.headers[Lower(p.name)])))
    [] src = "cookies" -> _parse_literal(_parse_json_maybe(PyStr(BindRequest.cookies[p.name])))
    [] src = "body" -> IF p.ann = "Model" /\ _read_body(BindRequest).t = "dict"
                       THEN PyModel(_read_body(BindRequest).d)
                       ELSE _read_body(BindRequest)
    [] src = "default" -> p.default

\* the parameter cannot be bound: no source holds anything for it, or it
\* asks for a record and the body is no JSON object
Unbound(p) ==
  \/ FirstSource(p) = 0
  \/ /\ SourceOrder[FirstSource(p)] = "body"
     /\ p.ann = "Model"
     /\ _read_body(BindRequest).t # "dict"

\* C8: each parameter is bound from the first source, in the order request
\* object, path, query, headers, cookies, body, default, that holds
\* something for it (the body for a parameter whose declared type asks for
\* it); a name that is both a path capture and a query parameter is bound
\* from the path.  The binding stops at the first parameter that cannot be
\* bound.
C8_SourcePrecedence ==
  b_done =>
    LET failing == {i \in DOMAIN b_func : Unbound(b_func[i])} IN
    IF failing = {}
    THEN /\ b_result.kind = "kw"
         /\ DOMAIN b_result.kw = {b_func[i].name : i \in DOMAIN b_func}
         /\ \A i \in DOMAIN b_func :
              b_result.kw[b_func[i].name] =
                ValueFrom(SourceOrder[FirstSource(b_func[i])], b_func[i])
    ELSE /\ b_result.kind =
              IF FirstSource(b_func[MinOf(failing)]) = 0 THEN "Error" ELSE "TypeError"
         /\ b_result.name = b_func[MinOf(failing)].name

C8_Witness ==
  /\ b_done
  /\ b_template = UsersId /\ b_scope.path = Users42
  /\ b_scope.query_string = Id \o <<"=", "7">>
  /\ b_func = << Param(Id, "Int", NoDefault) >>
  /\ b_result.kind = "kw"
  /\ b_result.kw[Id] = PyInt(42)

\* GET /users/42?active=true against GET /users/{id}, the function declaring
\* id and active
C9_Request ==
  /\ b_done
  /\ b_template = UsersId /\ b_scope.path = Users42
  /\ b_scope.query_string = ActiveTrue
  /\ b_func = << Param(Id, "Str", NoDefault), Param(Active, "Bool", NoDefault) >>

\* C9 as stated: the handler is called with id equal to the string "42"
\* and active equal to True.
C9_AsClaimed ==
  C9_Request =>
    /\ b_result.kind = "kw"
    /\ b_result.kw[Id] = PyStr(<<"4", "2">>)
    /\ b_result.kw[Active] = PyBool(TRUE)

\* C9: the arguments built for the handler are id equal to the integer 42
\* and active equal to True, and nothing else.
C9_IdIsInteger ==
  C9_Request =>
    /\ b_result.kind = "kw"
    /\ DOMAIN b_result.kw = {Id, Active}
    /\ b_result.kw[Id] = PyInt(42)
    /\ b_result.kw[Active] = PyBool(TRUE)

C9_Witness ==
  /\ C9_Request
  /\ b_scope.headers = <<>> /\ b_scope.body = <<>>
  /\ b_result.kind = "kw"
  /\ b_result.kw[Id] = PyInt(42)
  /\ b_result.kw[Active] = PyBool(TRUE)

(***************************************************************************)
(* Properties of the transport                                             *)
(***************************************************************************)

\* the response on the wire as a client reads it: the header block up to
\* the first empty line, its fields with lower-cased names, and the body
WireHead(c) == SubSeq(c, 1, Find(c, CRLF \o CRLF) - 1)
WireBody(c) == SubSeq(c, Find(c, CRLF \o CRLF) + 4, Len(c))
WireFields(c) == HeadersFrom(SplitText(WireHead(c), CRLF, -1), 2)
FieldValues(c, name) ==
  {WireFields(c)[i][2] : i \in {j \in DOMAIN WireFields(c) : WireFields(c)[j][1] = name}}

\* a reader of JSON documents: the value that starts at place i of c and the
\* place after it
NoValue == [ok |-> FALSE, next |-> 0, v |-> [k |-> "none"]]
Value(next, v) == [ok |-> TRUE, next |-> next, v |-> v]

RECURSIVE SkipWs(_, _)
SkipWs(c, i) == IF i <= Len(c) /\ c[i] = " " THEN SkipWs(c, i + 1) ELSE i

\* the place of the quote that closes the string whose content starts at i
\* (a quote closes the string when an even number of backslashes stands
\* between it and the last character before it that is no backslash)
Backslashes(c, i, j) ==
  j - 1 - MaxOf({k \in (i - 1)..(j - 1) : k = i - 1 \/ c[k] # "\\"})
StringEnd(c, i) ==
  LET ends == {j \in i..Len(c) : c[j] = "\"" /\ Backslashes(c, i, j) % 2 = 0}
  IN  IF ends = {} THEN 0 ELSE MinOf(ends)

RECURSIVE DigitsEnd(_, _)
DigitsEnd(c, i) == IF i <= Len(c) /\ c[i] \in Digits THEN DigitsEnd(c, i + 1) ELSE i

WordAt(c, i, word) == i + Len(word) - 1 <= Len(c) /\ SubSeq(c, i, i + Len(word) - 1) = word

RECURSIVE JsonValueAt(_, _)
RECURSIVE JsonItemsAt(_, _, _)
RECURSIVE JsonMembersAt(_, _, _)

JsonStringAt(c, i) ==
  IF StringEnd(c, i + 1) = 0 THEN NoValue
  ELSE Value(StringEnd(c, i + 1) + 1,
             [k |-> "string", s |-> SubSeq(c, i + 1, StringEnd(c, i + 1) - 1)])

JsonNumberAt(c, i) ==
  LET from == IF c[i] = "-" THEN i + 1 ELSE i IN
  IF DigitsEnd(c, from) = from THEN NoValue
  ELSE Value(DigitsEnd(c, from), [k |-> "number", n |-> IntOf(SubSeq(c, i, DigitsEnd(c, from) - 1))])

JsonAt(c, i) ==
  IF i > Len(c) THEN NoValue
  ELSE IF c[i] = "\"" THEN JsonStringAt(c, i)
  ELSE IF WordAt(c, i, Null) THEN Value(i + 4, [k |-> "null"])
  ELSE IF WordAt(c, i, True) THEN Value(i + 4, [k |-> "true"])
  ELSE IF WordAt(c, i, False) THEN Value(i + 5, [k |-> "false"])
  ELSE IF c[i] \in Digits \cup {"-"} THEN JsonNumberAt(c, i)
  ELSE IF c[i] = "["
  THEN IF SkipWs(c, i + 1) <= Len(c) /\ c[SkipWs(c, i + 1)] = "]"
       THEN Value(SkipWs(c, i + 1) + 1, [k |-> "array", items |-> <<>>])
       ELSE JsonItemsAt(c, i + 1, <<>>)
  ELSE IF c[i] = "{"
  THEN IF SkipWs(c, i + 1) <= Len(c) /\ c[SkipWs(c, i + 1)] = "}"
       THEN Value(SkipWs(c, i + 1) + 1, [k |-> "object", members |-> <<>>])
       ELSE JsonMembersAt(c, SkipWs(c, i + 1), <<>>)
  ELSE NoValue

JsonValueAt(c, i) == JsonAt(c, SkipWs(c, i))

\* the items of an array from place i on, after the items acc
ItemsAfter(c, r, j, acc) ==
  IF ~r.ok \/ j > Len(c) THEN NoValue
  ELSE IF c[j] = "," THEN JsonItemsAt(c, j + 1, Append(acc, r.v))
  ELSE IF c[j] = "]" THEN Value(j + 1, [k |-> "array", items |-> Append(acc, r.v)])
  ELSE NoValue
JsonItemsAt(c, i, acc) ==
  \* the place after the item is looked at only when there is an item
  LET r == JsonValueAt(c, i) IN
  ItemsAfter(c, r, IF r.ok THEN SkipWs(c, r.next) ELSE 0, acc)

\* the members of an object from the key at place i on, after the members acc
MembersAfter(c, key, r, j, acc) ==
  IF ~r.ok \/ j > Len(c) THEN NoValue
  ELSE IF c[j] = ","
  THEN JsonMembersAt(c, SkipWs(c, j + 1), Append(acc, <<key.v.s, r.v>>))
  ELSE IF c[j] = "}"
  THEN Value(j + 1, [k |-> "object", members |-> Append(acc, <<key.v.s, r.v>>)])
  ELSE NoValue
MemberAfter(c, key, colon, acc) ==
  IF colon > Len(c) \/ c[colon] # ":" THEN NoValue
  ELSE LET r == JsonValueAt(c, colon + 1) IN
       MembersAfter(c, key, r, IF r.ok THEN SkipWs(c, r.next) ELSE 0, acc)
JsonMembersAt(c, i, acc) ==
  IF i > Len(c) \/ c[i] # "\"" THEN NoValue
  ELSE LET key == JsonStringAt(c, i) IN
       IF ~key.ok THEN NoValue ELSE MemberAfter(c, key, SkipWs(c, key.next), acc)

\* c is one JSON value and nothing else
JsonDocument(c) ==
  LET r == JsonValueAt(c, 1) IN
  IF r.ok /\ SkipWs(c, r.next) = Len(c) + 1 THEN r ELSE NoValue

\* the value of the member named key of an object
Member(v, key) == v.members[CHOOSE i \in DOMAIN v.members : v.members[i][1] = key][2]

\* a JSON object with exactly the members status, code, data and message,
\* status being "success" or "failure", code a number, message a string or null
EnvelopeKeys == {Chars("status"), Chars("code"), Chars("data"), Chars("message")}
IsEnvelopeValue(v) ==
  /\ v.k = "object"
  /\ Len(v.members) = 4
  /\ {v.members[i][1] : i \in DOMAIN v.members} = EnvelopeKeys
  /\ Member(v, Chars("status")).k = "string"
  /\ Member(v, Chars("status")).s \in {Chars("success"), Chars("failure")}
  /\ Member(v, Chars("code")).k = "number"
  /\ Member(v, Chars("message")).k \in {"string", "null"}
IsEnvelope(c) == JsonDocument(c).ok /\ IsEnvelopeValue(JsonDocument(c).v)

\* the Content-Length field is there once and gives the length of the body
LengthIsExact(c) ==
  \E v \in FieldValues(c, ContentLength) :
    /\ FieldValues(c, ContentLength) = {v}
    /\ IsIntText(v)
    /\ IntOf(v) = Len(WireBody(c))

HasContentType(c, type) == FieldValues(c, Chars("content-type")) = {Chars(type)}

\* the status code of the status line
WireStatus(c) == SplitText(SplitText(WireHead(c), CRLF, -1)[1], <<" ">>, 2)[2]

\* the response on the wire is the JSON envelope with its two headers
JsonEnvelopeOnWire(c) ==
  /\ HasContentType(c, "application/json; charset=utf-8")
  /\ LengthIsExact(c)
  /\ IsEnvelope(WireBody(c))

\* C10 as the specification states it: every response written to a client,
\* on every path through transport and dispatch, is a JSON document of the
\* envelope shape sent with Content-Type application/json; charset=utf-8 and
\* a Content-Length equal to the byte length of the body
C10_AsClaimed == t_wire # "" => JsonEnvelopeOnWire(Chars(t_wire))

\* C10: every response that API._send_response writes is a JSON document of
\* the envelope shape (status, code, data, message) sent with Content-Type
\* application/json; charset=utf-8 and a Content-Length equal to the byte
\* length of the body; every response the transport writes itself (400 for a
\* malformed request, 500 when an exception leaves the application before
\* the response started) is a fixed text sent as text/plain; charset=utf-8,
\* with a Content-Length equal to the byte length of the body too; nothing
\* else is written to a client
C10_EnvelopeOrPlainText ==
  /\ t_via = "_send_response" => JsonEnvelopeOnWire(Chars(t_wire))
  /\ t_via = "_send_simple_response" =>
       /\ HasContentType(Chars(t_wire), "text/plain; charset=utf-8")
       /\ LengthIsExact(Chars(t_wire))
       /\ ~JsonDocument(WireBody(Chars(t_wire))).ok
       /\ WireStatus(Chars(t_wire)) \in {Chars("400"), Chars("500")}
  /\ t_via = "none" <=> t_wire = ""

\* a 404 failure envelope was written by API._send_response for a request
\* that came with a body
C10_Witness ==
  /\ t_pc = "closed"
  /\ t_via = "_send_response"
  /\ t_scope.length > 0
  /\ WireStatus(Chars(t_wire)) = Chars("404")
  /\ JsonEnvelopeOnWire(Chars(t_wire))

(***************************************************************************)
(* Recovery of failures inside the dispatch callback                       *)
(***************************************************************************)

\* C11 as the specification states it: a request rejected by the block,
\* token or rate-limit check, or whose handler arguments could not be built,
\* is answered by API.__call__ with a failure envelope; no exception leaves
\* API.__call__ for it
C11_AsClaimed ==
  last.at \in {"rejected", "bind"} => (~last.raised /\ last.resp.status = "failure")


\* the user's function raised an exception that is neither Error nor TypeError
HandlerRaised(l) ==
  l.at = "finished" /\ l.code = 500 /\ "post_block" \notin Range(l.steps)

\* C14 as the specification states it: when the user's function raises an
\* exception other than Error, the request is answered with a failure
\* envelope of code 500 whose detail is the generic "Internal Server Error"
\* (no debug flag is set)
C14_AsClaimed ==
  HandlerRaised(last) =>
    /\ Answered(last, 500)
    /\ last.resp.message = <<"Internal Server Error">>

\* C15 as the specification states it: a request whose handler arguments
\* could not be built (a required parameter is missing, or the body for a
\* structured-record parameter is no JSON object) is answered with a 422
\* failure envelope that has a message
C15_AsClaimed ==
  last.at = "bind" => (Answered(last, 422) /\ last.resp.message # NoneValue)

(***************************************************************************)
(* Permanent blocks                                                        *)
(***************************************************************************)

\* the Block records of the application's routes
BlocksOf(rs) ==
  UNION { {rs[i].mids[j] : j \in {k \in DOMAIN rs[i].mids : rs[i].mids[k].type = "Block"}} :
            i \in DOMAIN rs }

\* the IP has a record without expiry in blocked_ips
Permanent(b, ip) == ip \in DOMAIN b /\ b[ip].blocked_until = NoneTime

\* a record installed by a Block with a negative block_minutes has no expiry
NegativeIsPermanent ==
  \A ip \in DOMAIN blocked_ips :
    (\A m \in BlocksOf(routes) :
        m.message = blocked_ips[ip].message => m.block_minutes < 0)
      => Permanent(blocked_ips, ip)

\* a request that arrives for an IP with such a record on a route with a
\* Block is rejected by the block check with 403 and the record's message
PermanentRejects ==
  (Routed /\ last.pre.block = "permanent" /\ HasType(MidsOf(last.idx), "Block")) =>
    /\ RejectedAtBlock(last)
    /\ last.err.detail = blocked_ips[last.req.ip].message
    /\ blocked_ips[last.req.ip].message \in {m.message : m \in BlocksOf(routes)}

\* no step removes or changes a record without expiry
PermanentStays ==
  \A ip \in IPs :
    Permanent(blocked_ips, ip) =>
      (Permanent(blocked_ips', ip) /\ blocked_ips'[ip] = blocked_ips[ip])

\* C16: a block installed by a Block with a negative block_minutes has no
\* expiry; once installed, no passage of time and no request removes or
\* changes the record, and every later block check for the IP rejects with
\* 403 and the installing Block's message
C16_PermanentBlock ==
  /\ [](NegativeIsPermanent /\ PermanentRejects)
  /\ [][PermanentStays]_vars

\* 90 seconds after the start, a request of an IP blocked without expiry was
\* rejected by the block check
C16_Witness ==
  /\ now = MaxTicks * TickSeconds
  /\ last.pre.block = "permanent"
  /\ RejectedAtBlock(last)
  /\ last.err.detail = BlockA.message

(***************************************************************************)
(* Checks present and absent                                               *)
(***************************************************************************)

\* the middleware set of the route a record is about; none when no route
\* was resolved
MidsFor(idx) == IF idx = 0 THEN NoMids ELSE routes[idx].mids

\* the middleware set of the route of the request that a step works on: the
\* request whose function returns, the request that reaches its function,
\* or the request that is answered at once
StepMids ==
  IF \E c \in Conns : conn[c].pc = "handler"
  THEN MidsFor(conn[CHOOSE c \in Conns : conn[c].pc = "handler"].idx)
  ELSE IF \E c \in Conns : conn'[c].pc = "handler"
  THEN MidsFor(conn'[CHOOSE c \in Conns : conn'[c].pc = "handler"].idx)
  ELSE MidsFor(last'.idx)

\* a step for a route whose set has no Block leaves blocked_ips and
\* auth_failures as they are, one whose set has no Limit leaves rate_limits
\* as it is; with no set at all the three are left as they are
AbsentLeaves ==
  /\ ~HasType(StepMids, "Block") => UNCHANGED <<blocked_ips, auth_failures>>
  /\ ~HasType(StepMids, "Limit") => UNCHANGED rate_limits
  /\ StepMids = NoMids => UNCHANGED mapVars

\* no request is rejected by a check whose record the route's set lacks
AbsentNeverRejects ==
  last.at # "none" =>
    /\ ~HasType(MidsFor(last.idx), "Block") => last.err.code # 403
    /\ ~HasType(MidsFor(last.idx), "Token") => last.err.code # 401
    /\ ~HasType(MidsFor(last.idx), "Limit") => (last.err.code # 429 /\ ~last.stamped)
    /\ MidsFor(last.idx) = NoMids => last.at # "rejected"

\* the checks whose records the route's set holds are made: a blocked IP is
\* rejected by the block check, a request without the right credential that
\* the block check let pass is rejected by the token check, a request that
\* both let pass is counted by the rate-limit check or rejected by it
PresentRuns ==
  (Routed /\ last.at # "help") =>
    LET mids == MidsFor(last.idx)
        blocked == HasType(mids, "Block") /\ Blocked(last.pre)
        refused == HasType(mids, "Token") /\ TokenFails(last.req, last.idx)
    IN
    /\ blocked => RejectedAtBlock(last)
    /\ (~blocked /\ refused) => (last.at = "rejected" /\ last.err.code = 401)
    /\ (~blocked /\ ~refused /\ HasType(mids, "Limit")) =>
         (last.stamped \/ (last.at = "rejected" /\ last.err.code = 429))

\* C17: a request to a route with no middleware set runs none of the three
\* checks and leaves blocked_ips, auth_failures and rate_limits as they are,
\* whatever its outcome; a route whose set holds a subset of Block, Token,
\* Limit runs the checks of the records present and none of the absent ones
C17_ChecksPresent ==
  /\ [](AbsentNeverRejects /\ PresentRuns)
  /\ [][AbsentLeaves]_vars

\* an IP with a block in force was served on the route that carries Token
\* and Limit only, and its request was counted by the rate-limit check
C17_Witness ==
  /\ last.at = "finished"
  /\ MidsFor(last.idx) = <<TokenA, LimitA>>
  /\ last.pre.block = "future"
  /\ last.stamped

(***************************************************************************)
(* Requests without a route                                                *)
(***************************************************************************)

\* the bytes of the envelope resp as _send_response writes them
EnvelopeWire(resp, in_json) ==
  _send_response(Writer(FALSE, FALSE, ""), ResponseOf(resp, in_json), TRUE).wire

\* the response to a request without a route is a 404 failure envelope that
\* depends on the route table, the method and the path only
SameNotFound ==
  last.at = "notfound" =>
    /\ Answered(last, 404)
    /\ last.resp = ResolveRoute(routes, last.req.method, last.req.path).resp
    /\ last.resp.message = NoRouteDetail(Upper(last.req.method), last.req.path)

\* a step that answers a request without a route leaves the route table,
\* blocked_ips, auth_failures and rate_limits as they are; when the request
\* before it was the same one, the bytes written are the same
NotFoundLeaves ==
  (last'.at = "notfound" /\ conn' = conn /\ now' = now) =>
    /\ UNCHANGED <<routes, mapVars>>
    /\ (last.at = "notfound" /\ last.req.method = last'.req.method
                            /\ last.req.path = last'.req.path) =>
         \A in_json \in BOOLEAN :
           EnvelopeWire(last'.resp, in_json) = EnvelopeWire(last.resp, in_json)

\* C18: a request that fails route resolution changes nothing: the route
\* table, blocked_ips, auth_failures and rate_limits are after it what they
\* were before it, and repeating it yields the same 404 envelope byte for byte
C18_NotFoundIsPure ==
  /\ []SameNotFound
  /\ [][NotFoundLeaves]_vars

\* a request without a route was answered 404 while the IP had a block in
\* force and a minute had passed
C18_Witness ==
  /\ last.at = "notfound"
  /\ Answered(last, 404)
  /\ last.pre.block \in {"future", "permanent"}
  /\ now >= 60

(***************************************************************************)
(* Token authentication                                                    *)
(***************************************************************************)

Schemes == { Chars("bearer"), Chars("token") }

\* the credentials an Authorization header supplies: what follows a scheme
\* word that is Bearer or Token in any case, without the surrounding spaces
AuthorizationCredentials(h) ==
  { Strip(SubSeq(h, i + 1, Len(h)), Whitespace) :
      i \in { j \in DOMAIN h :
                /\ h[j] \in Whitespace
                /\ Range(Strip(SubSeq(h, 1, j - 1), Whitespace)) \cap Whitespace = {}
                /\ Lower(Strip(SubSeq(h, 1, j - 1), Whitespace)) \in Schemes } }
    \ { <<>> }

\* the credentials of a request, source by source in the order Authorization,
\* X-Api-Token, token query parameter; a source that supplies none is left out
Supplied(req) ==
  (IF AuthorizationCredentials(req.authorization) = {} THEN <<>>
   ELSE << CHOOSE k \in AuthorizationCredentials(req.authorization) : TRUE >>)
  \o (IF req.x_api_token = <<>> THEN <<>> ELSE << req.x_api_token >>)
  \o (IF req.query_token = <<>> THEN <<>> ELSE << req.query_token >>)

\* the first credential supplied equals the secret
GoodCredential(req, secret) == Supplied(req) # <<>> /\ Supplied(req)[1] = secret

\* C12: the token check takes the credential from the first source that
\* supplies one, in the order Authorization header with scheme Bearer or
\* Token in any case, X-Api-Token header, token query parameter; the request
\* passes the check and reaches the handler if and only if that credential
\* equals the route's secret, and is otherwise rejected by the check, which
\* raises its 401
C12_TokenAuth ==
  /\ \A c \in Conns :
       conn[c].pc = "handler" =>
         GoodCredential(conn[c].req, TokenOf(conn[c].idx).token)
  /\ last.at = "finished" => GoodCredential(last.req, TokenOf(last.idx).token)
  /\ last.at = "rejected" =>
       /\ ~GoodCredential(last.req, TokenOf(last.idx).token)
       /\ last.err.code = 401
       /\ "handler" \notin Range(last.steps)
  /\ Cardinality({AuthorizationCredentials(Chars(a)) : a \in AuthorizationValues}) > 2

\* a request whose Authorization header has another scheme and whose
\* X-Api-Token header holds a wrong credential was rejected although its
\* token query parameter holds the secret
C12_Witness ==
  /\ last.at = "rejected"
  /\ last.req.authorization = Chars("Basic s")
  /\ last.req.x_api_token = Chars("S")
  /\ last.req.query_token = Secret
  /\ last.err.code = 401


\* what is written to the client for the request that API.__call__ ended
\* with: the envelope of _send_response, or the transport's 500 when an
\* exception left API.__call__
ClientWire(l) ==
  IF l.raised THEN _send_simple_response(500, "Internal Server Error")
  ELSE _send_response(Writer(FALSE, FALSE, ""), ResponseOf(l.resp, FALSE), TRUE).wire

\* C13 as the specification states it: the response to a request that failed
\* the token check is a 401 that carries a WWW-Authenticate header
C13_AsClaimed ==
  (last.at = "rejected" /\ last.err.code = 401) =>
    /\ WireStatus(Chars(ClientWire(last))) = Chars("401")
    /\ FieldValues(Chars(ClientWire(last)), Chars("www-authenticate")) # {}


(***************************************************************************)
(* Malformed requests                                                      *)
(***************************************************************************)

\* the blank line that ends the header block never arrives
NoTerminator == Find(Chars(t_stream), CRLF \o CRLF) = 0

\* the header block arrives and its first line has fewer than three tokens
\* separated by spaces
ShortRequestLine ==
  /\ ~NoTerminator
  /\ Len(SplitText(SplitText(Chars(t_stream), CRLF, -1)[1], <<" ">>, -1)) < 3

\* the transport answered with its 400
Rejected400 ==
  /\ t_via = "_send_simple_response"
  /\ WireStatus(Chars(t_wire)) = Chars("400")

Emitted500 ==
  /\ t_via = "_send_simple_response"
  /\ EndsWith(Chars(t_wire), Chars(_send_simple_response(500, "Internal Server Error")))

\* an exception left the application
AppRaised == t_pc = "closed" /\ t_app \in {"raised", "raised, closing"}

\* C20 as the specification states it: when an exception leaves the
\* application the transport writes its 500 exactly when no response start
\* was sent, and otherwise writes nothing more
C20_AsClaimed == AppRaised => (Emitted500 <=> ~t_started)

\* C20: when an exception leaves the application and the connection is not
\* closing already, the transport writes its 500 exactly when no response
\* start was sent, and otherwise writes nothing after what the application
\* sent; when the connection is closing already it writes nothing; in every
\* case the connection is closed, and the 500 is written in no other case
C20_Plain500 ==
  /\ (AppRaised /\ t_app = "raised") =>
       /\ Emitted500 <=> ~t_started
       /\ t_started => (t_via = "_send_response" /\ JsonEnvelopeOnWire(Chars(t_wire)))
  /\ (AppRaised /\ t_app = "raised, closing") => ~Emitted500
  /\ Emitted500 => (AppRaised /\ t_app = "raised")
  /\ t_app # "none" => t_pc = "closed"

\* writer.drain() failed after the envelope was written: the exception left
\* the application after the response start, and the transport wrote nothing
C20_Witness ==
  /\ AppRaised
  /\ t_app = "raised"
  /\ t_started
  /\ ~t_ended
  /\ ~Emitted500


(***************************************************************************)
(* One request and one response per connection                             *)
(***************************************************************************)

\* the number of responses on the wire: of status lines written
Responses(c) ==
  Cardinality({i \in 1..(Len(c) - 8) : SubSeq(c, i, i + 8) = Chars("HTTP/1.1 ")})

\* the application was called and the connection was lost before anything
\* was written to it
LostBeforeResponse == t_app = "raised, closing" /\ ~t_started

\* the connection was served: a complete request was read, the application
\* was called and the connection is closed
Served == t_pc = "closed" /\ t_app # "none"

\* C21: a connection on which a complete request was read is closed in the
\* end, however the call of the application ends; by then exactly one
\* response was written to it, unless the connection was lost before the
\* response; the request handed to the application is the first one of the
\* stream, and once the connection is closed nothing more is read from it or
\* written to it
C21_OneResponse ==
  /\ (t_pc = "app") ~> Served
  /\ [](Served => Responses(Chars(t_wire)) = IF LostBeforeResponse THEN 0 ELSE 1)
  /\ [](t_wire # "" => t_pc = "closed")
  /\ [](t_pc = "app" =>
         t_scope.path = urlsplit(SplitText(Chars(t_stream), <<" ">>, 2)[2]).path)
  /\ [][t_pc # "accepted" => t_pc' # "accepted"]_vars
  /\ [][t_pc = "closed" => UNCHANGED transportVars]_vars

\* a client sent two requests on one connection: the first was answered by
\* the handler of /help and the connection was closed with one response on it
C21_Witness ==
  /\ t_stream = Pipelined
  /\ Served
  /\ t_app = "returned"
  /\ Responses(Chars(t_wire)) = 1
  /\ WireStatus(Chars(t_wire)) = Chars("200")

(***************************************************************************)
(* Normalization of what handlers return                                   *)
(***************************************************************************)

\* C22 as the specification states it: a plain string returned by a handler
\* becomes a success envelope with code 200 whose message is the string and
\* whose data is empty
C22_AsClaimed ==
  (n_done /\ n_result.t = "str") =>
    n_resp = Response("success", 200, PyNone, n_result)

(***************************************************************************)
(* Escalation by the codes of returned envelopes                           *)
(***************************************************************************)

\* a step in which the handler of connection c returns an envelope whose
\* code is a trigger code of the Block of its route
TriggerReturn(c) ==
  /\ conn[c].pc = "handler"
  /\ conn'[c].pc = "idle"
  /\ last'.c = c
  /\ last'.at = "finished"
  /\ last'.steps[Len(last'.steps)] = "post_block"
  /\ HasType(MidsOf(conn[c].idx), "Block")
  /\ last'.code \in BlockOf(conn[c].idx).codes

\* the failures of the IP that auth_failures holds and that are no older
\* than the interval at time t
Recent(f, ip, interval, t) ==
  SelectSeq(IF ip \in DOMAIN f THEN f[ip] ELSE <<>>, LAMBDA x : x >= t - interval)

\* the block check of such a step adds the time of the step to the recent
\* failures of the IP, or, when that brings their number to the threshold,
\* installs the block record of the route's Block and forgets the failures
CountedOrBlocked(c, ip, blk) ==
  IF Len(Recent(auth_failures, ip, blk.interval, now)) + 1 >= blk.attempts
  THEN /\ ip \in DOMAIN blocked_ips'
       /\ blocked_ips'[ip] = [blocked_until |-> BlockedUntil(blk.block_minutes, now),
                              message |-> blk.message]
       /\ ip \notin DOMAIN auth_failures'
  ELSE /\ ip \in DOMAIN auth_failures'
       /\ auth_failures'[ip] = Append(Recent(auth_failures, ip, blk.interval, now), now)
       /\ ip \notin DOMAIN blocked_ips'

\* the same by the history of the IP: on a route that asks for no token,
\* where every 401-coded outcome is a returned envelope, the block is
\* installed exactly when the outcomes of the last 30 seconds, this one
\* included, number the attempts of the Block
EscalatesByHistory(c, ip, blk) ==
  (~HasType(MidsOf(conn[c].idx), "Token") /\ blk.interval = 30 /\ blk.attempts <= 3) =>
    (Len(g_fail[ip]) + 1 >= blk.attempts <=> ip \in DOMAIN blocked_ips')

\* C23: when a handler returns an envelope whose code is a trigger code of
\* the route's Block, the block check that follows records a failure for the
\* client IP at the time of the return, and when the failures of the IP
\* within the interval reach the attempts of the Block the block is
\* installed, although no exception was raised
C23_ReturnCounts ==
  [][\A c \in Conns :
       TriggerReturn(c) =>
         /\ CountedOrBlocked(c, conn[c].req.ip, BlockOf(conn[c].idx))
         /\ EscalatesByHistory(c, conn[c].req.ip, BlockOf(conn[c].idx))]_vars

\* the handler of a route with Block(codes 401, attempts 3, interval 30)
\* returned a 401 envelope for the third time within 30 seconds and the
\* block is installed
C23_Witness ==
  /\ routes = AppBlock
  /\ last.at = "finished"
  /\ last.code = 401
  /\ "post_block" \in Range(last.steps)
  /\ last.pre.fails = 2
  /\ g_hit[last.req.ip]
  /\ now = 30
  /\ last.req.ip \in DOMAIN blocked_ips
  /\ blocked_ips[last.req.ip].message = BlockA.message

(***************************************************************************)
(* Escalation by the codes of raised failures                              *)
(***************************************************************************)

\* the request ended in an except branch of API.__call__: a pre-handler
\* check or the binding raised, or the user's function raised
EndedInExcept(l) ==
  l.at \in {"rejected", "bind"} \/ (l.at = "finished" /\ l.code = 500)

ReachesThreshold(c) ==
  Len(Recent(auth_failures, conn[c].req.ip, BlockOf(conn[c].idx).interval, now)) + 1
    >= BlockOf(conn[c].idx).attempts

\* a request that arrives after a block without duration was installed for
\* its IP is not rejected by the block check, and the record is removed
ZeroBlockClears ==
  (Routed /\ HasType(MidsOf(last.idx), "Block") /\ BlockOf(last.idx).block_minutes = 0
          /\ last.pre.block = "expired") =>
    /\ last.err.code # 403
    /\ "handler" \in Range(last.steps)

\* C25 as the specification states it: the request whose trigger-coded
\* outcome brings the failures of the IP to the attempts of the Block
\* installs the block and is itself answered 403 with the Block's message;
\* a block without duration is removed by the next block check for the IP,
\* and that request proceeds
C25_AsClaimed ==
  /\ []ZeroBlockClears
  /\ [][\A c \in Conns :
          (TriggerReturn(c) /\ ReachesThreshold(c)) =>
            /\ conn[c].req.ip \in DOMAIN blocked_ips'
            /\ Answered(last', 403)
            /\ last'.resp.message = BlockOf(conn[c].idx).message]_vars

(***************************************************************************)
(* The interval of the failure count                                       *)
(***************************************************************************)

\* every failure that auth_failures holds for the IP is older than the interval
AllStale(ip, interval) ==
  /\ ip \in DOMAIN auth_failures
  /\ auth_failures[ip] # <<>>
  /\ \A i \in DOMAIN auth_failures[ip] : auth_failures[ip][i] < now - interval

\* what the block check of a trigger-coded return does with the age of the
\* failures: a block is installed only when the outcomes of the IP within
\* the interval, this one included, number the attempts; the failures kept
\* are no older than the interval; and when all the failures held are older
\* than the interval the count starts again at one and no block is installed
CountsRecentOnly(c, ip, blk) ==
  /\ (~HasType(MidsOf(conn[c].idx), "Token") /\ blk.interval = 30 /\ blk.attempts <= 3) =>
       (ip \in DOMAIN blocked_ips' => Len(g_fail[ip]) + 1 >= blk.attempts)
  /\ ip \in DOMAIN auth_failures' =>
       \A i \in DOMAIN auth_failures'[ip] : auth_failures'[ip][i] >= now - blk.interval
  /\ (AllStale(ip, blk.interval) /\ blk.attempts > 1) =>
       /\ ip \notin DOMAIN blocked_ips'
       /\ auth_failures'[ip] = <<now>>

\* C26: only the trigger-coded outcomes of the last interval seconds count
\* toward the attempts: attempts-1 failures of an IP followed more than
\* interval seconds later by one more install no block
C26_IntervalCounts ==
  [][\A c \in Conns :
       TriggerReturn(c) =>
         CountsRecentOnly(c, conn[c].req.ip, BlockOf(conn[c].idx))]_vars

\* two failures were held for the IP, both older than 30 seconds, when its
\* request arrived on the route with Block(attempts 3, interval 30); the
\* handler returned a 401 envelope, and the IP is not blocked and has one
\* failure recorded
C26_Witness ==
  /\ routes = AppBlock
  /\ last.at = "finished"
  /\ last.code = 401
  /\ "post_block" \in Range(last.steps)
  /\ last.pre.stored = 2
  /\ last.pre.fails = 0
  /\ last.req.ip \notin DOMAIN blocked_ips
  /\ last.req.ip \in DOMAIN auth_failures
  /\ Len(auth_failures[last.req.ip]) = 1

(***************************************************************************)
(* The pruning of the rate window                                          *)
(***************************************************************************)

\* the step is the start of API.__call__ on connection c and its
\* pre-handler checks reached the rate-limit check: the request went on to
\* the handler, or was answered from the check or from the binding
RateCheckOn(c) ==
  /\ conn[c].pc = "idle"
  /\ \/ /\ conn'[c].pc = "handler"
        /\ "limit" \in Range(conn'[c].steps)
        /\ HasType(MidsOf(conn'[c].idx), "Limit")
     \/ /\ conn'[c].pc = "idle"
        /\ last' # last
        /\ last'.c = c
        /\ last'.at \in {"rejected", "bind"}
        /\ "limit" \in Range(last'.steps)
        /\ HasType(MidsOf(last'.idx), "Limit")

\* the IP of the request that starts in the step on connection c
StartedIp(c) == IF conn'[c].pc = "handler" THEN conn'[c].req.ip ELSE last'.req.ip

\* rate_limits holds timestamps for the IP and each of them is more than
\* 60 seconds old
WindowElapsed(ip) ==
  /\ ip \in DOMAIN rate_limits
  /\ rate_limits[ip].timestamps # <<>>
  /\ OlderThanWindow(rate_limits, ip, now) = rate_limits[ip].timestamps

\* C27 as stated: a rate-limit check for an IP whose stored timestamps are
\* all older than the window of 60 seconds leaves no such timestamp stored
\* for the IP.
C27_AsClaimed ==
  [][\A c \in Conns :
       (RateCheckOn(c) /\ WindowElapsed(StartedIp(c))) =>
         OlderThanWindow(rate_limits', StartedIp(c), now) = <<>>]_vars

\* C27: a rate-limit check for an IP that finds no rate block of the IP in
\* force leaves no timestamp older than the window of 60 seconds stored for
\* the IP and stores the time of the check as the newest one; a check that
\* finds a block in force leaves the stored timestamps as they are, those
\* older than the window included.
C27_PrunedUnlessBlocked ==
  [][\A c \in Conns :
       RateCheckOn(c) =>
         IF RateBlockInForce(rate_limits, StartedIp(c), now)
         THEN rate_limits' = rate_limits
         ELSE /\ StartedIp(c) \in DOMAIN rate_limits'
              /\ OlderThanWindow(rate_limits', StartedIp(c), now) = <<>>
              /\ rate_limits'[StartedIp(c)].timestamps =
                   Append(SelectSeq(IF StartedIp(c) \in DOMAIN rate_limits
                                    THEN rate_limits[StartedIp(c)].timestamps ELSE <<>>,
                                    LAMBDA x : x >= now - 60), now)]_vars

\* the IP was answered 429 by the check that installed its rate block, the
\* block has run out and the timestamps recorded with it are more than 60
\* seconds old; the IP's next request passed the rate-limit check, which
\* left the time of that request as the only timestamp
C27_Witness ==
  \E c \in InHandler :
    /\ routes = AppLimit
    /\ "limit" \in Range(conn[c].steps)
    /\ conn[c].pre.rl_old = 3
    /\ rate_limits[conn[c].req.ip].has_until
    /\ rate_limits[conn[c].req.ip].timestamps = <<now>>

(***************************************************************************)
(* The rate block while it lasts and after it                              *)
(***************************************************************************)

\* the step is the start of API.__call__ on connection c for a request
\* resolved to a route with a middleware set
StartOn(c) ==
  /\ conn[c].pc = "idle"
  /\ \/ conn'[c].pc = "handler"
     \/ /\ conn'[c].pc = "idle"
        /\ last' # last
        /\ last'.c = c
        /\ last'.at \in {"rejected", "bind"}

\* the route of the request that starts in the step on connection c
StartedIdx(c) == IF conn'[c].pc = "handler" THEN conn'[c].idx ELSE last'.idx

\* the request that starts in the step on connection c is rejected by an
\* Error of that code and detail and reaches neither binding nor handler
RejectedWith(c, code, detail) ==
  /\ conn'[c].pc = "idle"
  /\ last'.at = "rejected"
  /\ last'.err.code = code
  /\ last'.err.detail = detail
  /\ Range(last'.steps) \cap {"bind", "handler"} = {}

\* rate_limits holds a block for the IP which has run out at time t
RateBlockOver(r, ip, t) ==
  ip \in DOMAIN r /\ r[ip].has_until /\ r[ip].blocked_until <= t

\* C28 as stated: while rate_limits holds a block of the IP with
\* blocked_until in the future, every request of the IP to a route with a
\* Limit is rejected with 429 and rate_limits stays as it is.
C28_AsClaimed ==
  [][\A c \in Conns :
       ( /\ StartOn(c)
         /\ HasType(MidsOf(StartedIdx(c)), "Limit")
         /\ RateBlockInForce(rate_limits, StartedIp(c), now) ) =>
         /\ RejectedWith(c, 429, rate_limits[StartedIp(c)].message)
         /\ rate_limits' = rate_limits]_vars

\* what the rate-limit check does for the request that starts on
\* connection c when no block of the IP is in force: the timestamps no
\* older than 60 seconds followed by the time of the check are stored;
\* when they are no more than the limit the request passes the check and
\* goes on to the binding, otherwise a block of block_minutes minutes is
\* stored and the request is rejected with 429
EvaluatedAfresh(c, ip, lim) ==
  LET ts == Append(SelectSeq(rate_limits[ip].timestamps, LAMBDA x : x >= now - 60), now)
  IN  /\ rate_limits'[ip].timestamps = ts
      /\ IF Len(ts) <= lim.limit
         THEN /\ "bind" \in Range(IF conn'[c].pc = "handler" THEN conn'[c].steps
                                  ELSE last'.steps)
              /\ ~RateBlockInForce(rate_limits', ip, now)
         ELSE /\ RejectedWith(c, 429, lim.message)
              /\ rate_limits'[ip].has_until
              /\ rate_limits'[ip].blocked_until = now + 60 * lim.block_minutes

\* C28: while rate_limits holds a block of the IP with blocked_until in the
\* future, every request of the IP that reaches the rate-limit check of a
\* route with a Limit is rejected by it with 429 and the block's message,
\* and rate_limits stays as it is; once blocked_until has passed, the next
\* request that reaches the check is evaluated against the pruned window
\* and passes the check when the count does not exceed the limit.
C28_BlockedThenEvaluated ==
  [][\A c \in Conns :
       RateCheckOn(c) =>
         /\ RateBlockInForce(rate_limits, StartedIp(c), now) =>
              /\ RejectedWith(c, 429, rate_limits[StartedIp(c)].message)
              /\ rate_limits' = rate_limits
         /\ RateBlockOver(rate_limits, StartedIp(c), now) =>
              EvaluatedAfresh(c, StartedIp(c), LimitOf(StartedIdx(c)))]_vars

\* a rate block installed for the IP has run out, and the IP's request
\* after that passed the rate-limit check with two timestamps in the
\* window, one recorded before the block ran out and its own
C28_Witness ==
  \E c \in InHandler :
    /\ HasType(MidsOf(conn[c].idx), "Limit")
    /\ "limit" \in Range(conn[c].steps)
    /\ RateBlockOver(rate_limits, conn[c].req.ip, now)
    /\ Len(rate_limits[conn[c].req.ip].timestamps) = 2
    /\ rate_limits[conn[c].req.ip].timestamps[2] = now
    /\ conn[c].pre.rl_old > 0

(***************************************************************************)
(* The order of the steps of one request                                   *)
(***************************************************************************)

\* the steps of API.__call__ in the order of its statements: route
\* resolution, the three pre-handler checks, the binding and the call of
\* the user's function inside route.handler, _to_response_model, the block
\* check with the code of the envelope, _send_response
CodeOrder ==
  <<"route", "block", "token", "limit", "bind", "handler", "normalize", "post_block", "send">>

\* the order with the block check before the normalization
ClaimedOrder ==
  <<"route", "block", "token", "limit", "bind", "handler", "post_block", "normalize", "send">>

Position(order, step) == CHOOSE k \in DOMAIN order : order[k] = step

\* the steps are steps of the order, each taken at most once and after
\* every step that stands before it in the order
InOrder(steps, order) ==
  /\ Range(steps) \subseteq Range(order)
  /\ \A i, j \in DOMAIN steps :
       i < j => Position(order, steps[i]) < Position(order, steps[j])

IsPrefix(p, q) == Len(p) <= Len(q) /\ SubSeq(q, 1, Len(p)) = p

\* C29 as stated: the steps a request has taken are in the order routing,
\* pre-handler checks, binding, handler, post-handler block check,
\* normalization, serialization.
C29_AsClaimed ==
  /\ InOrder(last.steps, ClaimedOrder)
  /\ \A c \in Conns : InOrder(conn[c].steps, ClaimedOrder)

\* C29: the steps a request has taken are in the order routing, pre-handler
\* checks, binding, handler, normalization, post-handler block check,
\* serialization, each taken at most once; while the request is suspended
\* in the handler it takes no step, and the steps after the handler are
\* added to the ones before it when the handler has returned.
C29_StepsInOrder ==
  /\ [](/\ InOrder(last.steps, CodeOrder)
        /\ \A c \in Conns : InOrder(conn[c].steps, CodeOrder))
  /\ [][\A c \in Conns :
          conn[c].pc = "handler" =>
            \/ conn'[c] = conn[c]
            \/ /\ conn'[c].pc = "idle"
               /\ last'.c = c
               /\ last'.at = "finished"
               /\ IsPrefix(conn[c].steps, last'.steps)
               /\ conn[c].steps[Len(conn[c].steps)] = "handler"]_vars

\* a request went through every step up to the block check made after the
\* handler returned
C29_Witness ==
  /\ last.at = "finished"
  /\ last.steps = <<"route", "block", "token", "limit", "bind", "handler",
                    "normalize", "post_block">>

(***************************************************************************)
(* The shared maps under concurrent connections                            *)
(***************************************************************************)

\* the timestamps rate_limits holds for the IP from the time t on
StoredSince(ip, t) ==
  IF ip \in DOMAIN rate_limits
  THEN SelectSeq(rate_limits[ip].timestamps, LAMBDA x : x >= t)
  ELSE <<>>

\* the connections suspended in the handler of a request of the IP
Suspended(ip) == {c \in DOMAIN conn : conn[c].pc = "handler" /\ conn[c].req.ip = ip}

\* every rate-limit check made for the IP in its window has its timestamp
\* stored
AllChecksStamped(ip) ==
  g_win[ip].n >= 1 => Len(StoredSince(ip, g_win[ip].start)) = g_win[ip].n

\* every rate-limit check made for the IP in its window that found no
\* block in force has its timestamp stored
UnblockedChecksStamped(ip) ==
  g_win[ip].n >= 1 => Len(StoredSince(ip, g_win[ip].start)) = g_win[ip].k

\* on the application whose 401-coded outcomes are all envelopes returned
\* by the handler of a route with Block(attempts 3, interval 30): the IP is
\* blocked exactly when three of its outcomes fell within 30 seconds, and
\* until then the failures stored for it that are no older than 30 seconds
\* are as many as its outcomes of the last 30 seconds
FailuresCounted(ip) ==
  routes = AppBlock =>
    /\ ip \in DOMAIN blocked_ips <=> g_hit[ip]
    /\ ip \notin DOMAIN blocked_ips =>
         Len(Recent(auth_failures, ip, BlockA.interval, now)) = Len(g_fail[ip])

HeaderBlock ==
  SubSeq(Chars(t_stream), 1, Find(Chars(t_stream), CRLF \o CRLF) + 3)

\* the headers the client sent, by lower-cased name
SentHeaders ==
  HeadersDict(HeadersFrom(HeaderLines(SplitText(HeaderBlock, CRLF, -1)), 1), 1, EmptyDict)

\* the header block arrives, its request line has three tokens, and the
\* Content-Length it carries is no number
BadContentLength ==
  /\ ~NoTerminator
  /\ ~ShortRequestLine
  /\ ContentLength \in DOMAIN SentHeaders
  /\ ~IsIntText(SentHeaders[ContentLength])

\* the request line is empty
EmptyRequestLine == ~NoTerminator /\ SplitText(Chars(t_stream), CRLF, -1)[1] = <<>>

Malformed == NoTerminator \/ EmptyRequestLine \/ ShortRequestLine \/ BadContentLength

\* nothing of the dispatch has happened: no request was resolved, no
\* handler is running, and the maps hold nothing
DispatchUntouched ==
  /\ blocked_ips = EmptyDict
  /\ auth_failures = EmptyDict
  /\ rate_limits = EmptyDict
  /\ last = NoLast
  /\ \A c \in DOMAIN conn : conn[c] = IdleConn

\* C31: on a connection whose header block never ends, whose request line
\* is empty or has fewer than three tokens, or whose Content-Length is no
\* number, the application is never called: the connection goes from
\* accepted to closed, nothing is sent through the application's send, and
\* the maps of the middleware stay as they are.
C31_MalformedStopsAtTransport ==
  /\ [](Malformed =>
          /\ t_pc \in {"accepted", "closed"}
          /\ t_app = "none"
          /\ t_scope = NoScope
          /\ t_via \in {"none", "_send_simple_response"}
          /\ ~t_started
          /\ DispatchUntouched)
  /\ []((Malformed /\ t_pc = "closed" /\ ~NoTerminator) => Rejected400)
  /\ [][Malformed => UNCHANGED <<mapVars, routes>>]_vars

\* a Content-Length that is no number was answered with the 400 and the
\* application was not called
C31_Witness ==
  /\ BadContentLength
  /\ t_pc = "closed"
  /\ t_app = "none"
  /\ Rejected400



(***************************************************************************)
(* A body sent before any start                                            *)
(***************************************************************************)

\* the bytes written to the connection begin with a status line
BeginsWithStatusLine ==
  /\ Len(Chars(t_wire)) >= 9
  /\ SubSeq(Chars(t_wire), 1, 9) = Chars("HTTP/1.1 ")

\* a step in which a body message is handed to send before any start
BodyBeforeStart ==
  /\ t_pc = "app"
  /\ ~t_started
  /\ ~t_ended
  /\ t_msg'.type = "http.response.body"

\* C32: when a body message is sent before any start message, the status
\* line of 200 without headers is written and then the body; nothing is on
\* the wire before a start, and whatever is on the wire begins with a status
\* line
C32_BodyAfterDefaultStart ==
  /\ [](t_wire # "" => BeginsWithStatusLine)
  /\ []((t_pc = "app" /\ ~t_started) => t_wire = "")
  /\ [][BodyBeforeStart =>
          /\ t_started'
          /\ t_wire' = "HTTP/1.1 200 OK\r\n\r\n" \o t_msg'.body]_vars

C32_Witness ==
  /\ t_msg = [BodyMessage("xy", TRUE) EXCEPT !.result = "returned"]
  /\ t_wire = "HTTP/1.1 200 OK\r\n\r\nxy"
  /\ t_via = "send"


(***************************************************************************)
(* One status line for each connection                                     *)
(***************************************************************************)

\* a step in which a message is handed to send and dealt with otherwise
\* than the message before it
NewlySent == t_pc = "app" /\ t_msg' # t_msg

\* send returned from a body message with more_body false
FinalBodySent ==
  /\ t_msg.type = "http.response.body"
  /\ ~t_msg.more_body
  /\ t_msg.result = "returned"

\* the bytes on the wire are one response of _send_simple_response
OnlySimple(status, body) ==
  /\ ~t_started
  /\ t_msg.result # "returned" \/ t_msg.type = "http.response.trailers"
  /\ t_wire = _send_simple_response(status, body)

\* C33: at most one status line is written to a connection; a start message
\* after a start raises and writes nothing; once send has returned from the
\* last body every message is ignored; and the 500 and the 400 of
\* _send_simple_response are written only when no start has occurred
C33_OneStatusLine ==
  /\ [](Responses(Chars(t_wire)) <= 1)
  /\ [][(NewlySent /\ t_started /\ ~t_ended /\ t_msg'.type = "http.response.start") =>
          /\ t_msg'.result = "raised"
          /\ t_wire' = t_wire]_vars
  /\ [](FinalBodySent => t_ended)
  /\ [][t_ended =>
          /\ t_ended'
          /\ t_started' = t_started
          /\ t_wire' = t_wire
          /\ (t_msg' # t_msg => t_msg'.result = "ignored")]_vars
  /\ [](Emitted500 => OnlySimple(500, "Internal Server Error"))
  /\ [](Rejected400 => (t_app = "none" /\ t_msg = NoMessage /\ ~t_started))

\* a second start was sent and raised, and the wire holds the one response
C33_Witness ==
  /\ t_msg.type = "http.response.start"
  /\ t_msg.result = "raised"
  /\ t_started
  /\ Responses(Chars(t_wire)) = 1
  /\ t_pc = "app"


(***************************************************************************)
(* The rate limit under interleaving                                       *)
(***************************************************************************)

\* the Limit of the route of the request that connection c starts
StartedLimit(c) == MidsOf(StartedIdx(c))[FirstOfType(MidsOf(StartedIdx(c)), {"Limit"})]

\* connection c starts a request that the rate-limit check, finding no
\* block in force, rejects because the count exceeds the limit
OverLimitOn(c) ==
  /\ RateCheckOn(c)
  /\ ~RateBlockInForce(rate_limits, StartedIp(c), now)
  /\ conn'[c].pc = "idle"
  /\ last'.at = "rejected"
  /\ last'.err.code = 429

\* C34: with two connections and two routes that carry the same Limit, the
\* requests of one IP that went through the rate-limit check without an
\* Error in the last 60 seconds never number more than the limit; a request
\* the check rejects because the count exceeds the limit has its time
\* stored as the last timestamp of the IP, and the times stored number more
\* than the limit
C34_AtMostLimitPass ==
  /\ [](\A ip \in IPs :
          \A i \in DOMAIN routes :
            HasType(routes[i].mids, "Limit") =>
              Len(g_win[ip].passed)
                <= routes[i].mids[FirstOfType(routes[i].mids, {"Limit"})].limit)
  /\ [][\A c \in Conns2 :
          OverLimitOn(c) =>
            /\ StartedIp(c) \in DOMAIN rate_limits'
            /\ Len(rate_limits'[StartedIp(c)].timestamps) > StartedLimit(c).limit
            /\ rate_limits'[StartedIp(c)].timestamps
                 = Append(InWindow(IF StartedIp(c) \in DOMAIN rate_limits
                                   THEN rate_limits[StartedIp(c)].timestamps ELSE <<>>,
                                   now - MinuteSeconds), now)]_vars

\* a request is suspended in the handler of one route, two requests of the
\* IP went through the check in the last minute, one on each route, and the
\* request that came after them was rejected and is stored with them
C34_Witness ==
  /\ routes = AppShared
  /\ \E c \in Conns2 : conn[c].pc = "handler" /\ conn[c].req.path = Lim2Path
  /\ Len(g_win["10.0.0.1"].passed) = 2
  /\ last.at = "rejected"
  /\ last.err.code = 429
  /\ last.req.path = LimPath
  /\ Len(rate_limits["10.0.0.1"].timestamps) = 3


(***************************************************************************)
(* A block installed while another request is in its handler               *)
(***************************************************************************)

\* the handler of connection c returns for a request that went through the
\* block check when it arrived, and by now another request has had its IP
\* blocked
OvertakenFinish(c) ==
  /\ conn[c].pc = "handler"
  /\ conn'[c].pc = "idle"
  /\ last'.c = c
  /\ last'.at = "finished"
  /\ HasType(MidsOf(conn[c].idx), "Block")
  /\ conn[c].pre.block = "none"
  /\ conn[c].req.ip \in DOMAIN blocked_ips
  /\ BlockInForce(blocked_ips[conn[c].req.ip], now)

\* C35 as the specification states it: a request whose IP was blocked by
\* another request while its own handler ran is answered 403, with the
\* message of the block, by the block check made after its handler
C35_AsClaimed ==
  [][\A c \in Conns2 :
       OvertakenFinish(c) =>
         /\ Answered(last', 403)
         /\ last'.resp.message = blocked_ips[conn[c].req.ip].message]_vars


(***************************************************************************)
(* Blocked IPs hold no failures                                            *)
(***************************************************************************)

\* a block record is stored for the IP in the step
BlockStored(ip) ==
  /\ ip \in DOMAIN blocked_ips'
  /\ ip \notin DOMAIN blocked_ips \/ blocked_ips'[ip] # blocked_ips[ip]

\* the block record of the IP is removed in the step
BlockCleared(ip) == ip \in DOMAIN blocked_ips /\ ip \notin DOMAIN blocked_ips'

\* the failures stored for the IP, none when it has no list
Failures(f, ip) == IF ip \in DOMAIN f THEN f[ip] ELSE <<>>

\* C36: an IP with a record in blocked_ips has no list in auth_failures; a
\* step that stores a block leaves no list for the IP, a step that removes
\* an expired block leaves none of the failures stored before it, and no
\* step stores a failure for an IP whose block is in force
C36_BlockedHasNoFailures ==
  /\ [](DOMAIN blocked_ips \cap DOMAIN auth_failures = {})
  /\ [][\A ip \in IPs :
          /\ BlockStored(ip) => ip \notin DOMAIN auth_failures'
          /\ BlockCleared(ip) =>
               /\ ~BlockInForce(blocked_ips[ip], now)
               /\ Failures(auth_failures', ip) \in {<<>>, <<now>>}
          /\ (ip \in DOMAIN blocked_ips /\ BlockInForce(blocked_ips[ip], now)) =>
               /\ ip \notin DOMAIN auth_failures'
               /\ blocked_ips'[ip] = blocked_ips[ip]]_vars

\* the request that had the IP blocked found two failures stored for it
C36_Witness ==
  /\ last.at = "finished"
  /\ last.pre.stored = 2
  /\ last.pre.block = "none"
  /\ last.req.ip \in DOMAIN blocked_ips
  /\ last.req.ip \notin DOMAIN auth_failures


(***************************************************************************)
(* One failure list and one block record for all the routes of an IP       *)
(***************************************************************************)

\* the handler of connection c returns a trigger-coded envelope for an IP
\* that has no block record: the failures stored for the IP and no older
\* than the interval count with this one, whatever route stored them, and
\* the block is installed exactly when the 401-coded outcomes of the IP in
\* the last 30 seconds, on any route with a Block, number the attempts of
\* this route's Block
CountsAcrossRoutes(c, ip, blk) ==
  /\ CountedOrBlocked(c, ip, blk)
  /\ Len(g_fail[ip]) + 1 >= blk.attempts <=> ip \in DOMAIN blocked_ips'

\* connection c starts a request of a blocked IP on a route with a Block: it
\* is rejected with the message stored in the record
RejectedByStored(c, ip) ==
  /\ RejectedWith(c, 403, blocked_ips[ip].message)
  /\ UNCHANGED mapVars

\* C37: the failures and the block of an IP are shared by the routes.  A
\* trigger-coded outcome on a route counts together with those stored
\* through a route with another Block towards the attempts of its own Block,
\* and a request of a blocked IP is rejected on every route that carries a
\* Block, with the message stored when the block was installed
C37_SharedAcrossRoutes ==
  /\ [][\A c \in Conns2 :
          (TriggerReturn(c) /\ conn[c].req.ip \notin DOMAIN blocked_ips) =>
            CountsAcrossRoutes(c, conn[c].req.ip, BlockOf(conn[c].idx))]_vars
  /\ [][\A c \in Conns2 :
          (/\ StartOn(c)
           /\ HasType(MidsOf(StartedIdx(c)), "Block")
           /\ StartedIp(c) \in DOMAIN blocked_ips
           /\ BlockInForce(blocked_ips[StartedIp(c)], now)) =>
            RejectedByStored(c, StartedIp(c))]_vars

\* a block installed through /x rejects a request on /y with the message
\* of /x, while a request that arrived on /y before it, when one failure
\* was stored, is still in its handler
C37_Witness ==
  /\ routes = AppBlocks
  /\ last.at = "rejected"
  /\ last.req.path = YPath
  /\ last.err.code = 403
  /\ last.err.detail = BlockX.message
  /\ BlockOf(last.idx).message # BlockX.message
  /\ \E c \in Conns2 :
       /\ conn[c].pc = "handler"
       /\ conn[c].req.path = YPath
       /\ conn[c].pre.stored = 1


(***************************************************************************)
(* Requests to /help                                                       *)
(***************************************************************************)

\* the step answers a request whose path is /help or starts with /help/
HelpRequestAnswered == last' # last /\ IsHelpPath(last'.req.path)

\* the index of a route that the application registered at or under /help
UserHelpRoute(i) == i \in DOMAIN routes /\ i > Len(HelpEntries) /\ IsHelpPath(routes[i].path)

\* C38: a request to /help or under /help/ goes, whatever its method, to
\* the introspection entry (the first for /help, the second otherwise); none
\* of the checks runs for it, before or after the handler, and the three
\* maps stay as they are; no request is ever given a route that the
\* application registered under /help/
C38_HelpBypassesChecks ==
  /\ [][HelpRequestAnswered =>
          /\ last'.at = "help"
          /\ last'.idx = IF last'.req.path = HelpPath THEN 1 ELSE 2
          /\ routes[last'.idx] = HelpEntries[last'.idx]
          /\ Range(last'.steps) \cap {"block", "token", "limit", "post_block"} = {}
          /\ UNCHANGED <<mapVars, conn>>]_vars
  /\ [](~UserHelpRoute(last.idx) /\ \A c \in Conns : ~UserHelpRoute(conn[c].idx))

\* a DELETE request under /help/, from an IP that is blocked on the user
\* routes, is answered by the introspection entry
C38_Witness ==
  /\ last.at = "help"
  /\ last.req.method = <<"D", "E", "L", "E", "T", "E">>
  /\ last.req.path = HelpXPath
  /\ last.idx = 2
  /\ last.pre.block = "permanent"
  /\ \E i \in DOMAIN routes : UserHelpRoute(i) /\ HasType(routes[i].mids, "Block")


(***************************************************************************)
(* Empty segments in matching                                              *)
(***************************************************************************)

\* the paths that differ from p only in leading, trailing or repeated
\* slashes: those with the same runs of characters other than "/"
SameButSlashes(p) == {q \in Paths : Runs(q, <<>>) = Runs(p, <<>>)}

\* every path that differs from the matched one only in slashes gives the
\* same result against the template
SlashesInsignificant ==
  \A q \in SameButSlashes(m_path) : _match_path(m_template, q) = m_result

\* the template /{name} matched against a path without any segment binds
\* name to the empty string
RootBindsEmpty(T) ==
  IsCapture(T[1]) =>
    /\ m_result.matched
    /\ DOMAIN m_result.params = {CaptureName(T[1])}
    /\ m_result.params[CaptureName(T[1])] = <<>>

\* C39 as the specification states it: paths that differ only in slashes
\* match the same templates with the same captures; against the path "/" a
\* one-segment capture template matches with its name bound to the empty
\* string and a one-segment literal template never matches
C39_AsClaimed ==
  m_done =>
    /\ SlashesInsignificant
    /\ (m_path = <<"/">> /\ Len(Segments(m_template)) = 1) =>
         /\ RootBindsEmpty(Segments(m_template))
         /\ ~IsCapture(Segments(m_template)[1]) => ~m_result.matched

\* C39: paths that differ only in slashes match the same templates with the
\* same captures; against the path "/" a one-segment capture template
\* matches with its name bound to the empty string, and a one-segment
\* literal template matches exactly when its segment is the empty one, that
\* is when the template is "/" itself
C39_EmptySegments ==
  m_done =>
    /\ SlashesInsignificant
    /\ (m_path = <<"/">> /\ Len(Segments(m_template)) = 1) =>
         /\ RootBindsEmpty(Segments(m_template))
         /\ ~IsCapture(Segments(m_template)[1]) =>
              /\ m_result.matched <=> Segments(m_template)[1] = <<>>
              /\ m_result.matched => m_result.params = EmptyDict
    /\ (m_path = <<"/">> /\ Len(Segments(m_template)) # 1) => ~m_result.matched

\* the template /{x} was matched against "/" and x is the empty string
C39_Witness ==
  /\ m_done
  /\ m_template = <<"/", "{", "x", "}">>
  /\ m_path = <<"/">>
  /\ m_result.matched
  /\ m_result.params[<<"x">>] = <<>>

=========================================================================
